---- MODULE Spec2Model ----
(***************************************************************************)
(* Model of the university admissions crawler.                             *)
(*                                                                         *)
(*   main.py     fetch_html, extract_details, structured_extraction, main  *)
(*   main_ci.py  extract_university_data, process_universities, main       *)
(*   enrich_with_ai.py, claude_api.py, groq_api.py  the enrichment run     *)
(*                                                                         *)
(* Texts are TLA+ strings, so that len(), "in", lower(), strip() and the   *)
(* whitespace normalisation of clean_text are computed on characters.      *)
(***************************************************************************)
EXTENDS Integers, Sequences, FiniteSets, TLC

(***************************************************************************)
(* Python string primitives                                                *)
(***************************************************************************)

\* one character of s (1-based)
Char(s, i) == SubSeq(s, i, i)

\* str.isspace() for the characters that occur in the modelled pages
IsSpace(c) == c \in {" ", "\n", "\t"}

IsDigit(c) == c \in {"0", "1", "2", "3", "4", "5", "6", "7", "8", "9"}

\* str.lower() on one character
LowerChar(c) ==
    CASE c = "A" -> "a" [] c = "B" -> "b" [] c = "C" -> "c" [] c = "D" -> "d"
      [] c = "E" -> "e" [] c = "F" -> "f" [] c = "G" -> "g" [] c = "H" -> "h"
      [] c = "I" -> "i" [] c = "J" -> "j" [] c = "K" -> "k" [] c = "L" -> "l"
      [] c = "M" -> "m" [] c = "N" -> "n" [] c = "O" -> "o" [] c = "P" -> "p"
      [] c = "Q" -> "q" [] c = "R" -> "r" [] c = "S" -> "s" [] c = "T" -> "t"
      [] c = "U" -> "u" [] c = "V" -> "v" [] c = "W" -> "w" [] c = "X" -> "x"
      [] c = "Y" -> "y" [] c = "Z" -> "z" [] OTHER -> c

RECURSIVE Lower(_)
Lower(s) == IF s = "" THEN "" ELSE LowerChar(Char(s, 1)) \o Lower(SubSeq(s, 2, Len(s)))

\* s.startswith(p)
StartsWith(s, p) == Len(s) >= Len(p) /\ SubSeq(s, 1, Len(p)) = p

\* the part of s from position i on
From(s, i) == SubSeq(s, i, Len(s))

\* "sub in s"
Contains(s, sub) == \E i \in 1..(Len(s) - Len(sub) + 1) : SubSeq(s, i, i + Len(sub) - 1) = sub

RECURSIVE LStrip(_)
LStrip(s) == IF s /= "" /\ IsSpace(Char(s, 1)) THEN LStrip(From(s, 2)) ELSE s

RECURSIVE RStrip(_)
RStrip(s) == IF s /= "" /\ IsSpace(Char(s, Len(s))) THEN RStrip(SubSeq(s, 1, Len(s) - 1)) ELSE s

\* str.strip()
Strip(s) == RStrip(LStrip(s))

\* re.sub(r'\s+', ' ', s): every maximal run of whitespace becomes one space
RECURSIVE CollapseWs(_)
CollapseWs(s) ==
    IF s = "" THEN ""
    ELSE IF IsSpace(Char(s, 1))
         THEN " " \o CollapseWs(LStrip(s))
         ELSE Char(s, 1) \o CollapseWs(From(s, 2))

\* clean_text of extract_details
clean_text(text) == IF text = "" THEN "" ELSE CollapseWs(Strip(text))

(***************************************************************************)
(* Documents.  A parsed page is the sequence of its elements in document   *)
(* order (the order find_next() and find_all() walk).  An element has a    *)
(* tag name, its text (get_text()), the container that encloses it (tag,   *)
(* class and identity of the enclosing list or table, "" when none), an    *)
(* href (anchors) and its cells (table rows).                              *)
(***************************************************************************)

El(name, text) ==
    [name |-> name, text |-> text, ctag |-> "", cclass |-> "", cid |-> 0,
     href |-> "", cells |-> <<>>]

\* an <li> inside a container <ctag class=cclass>
Li(text, ctag, cclass, cid) ==
    [name |-> "li", text |-> text, ctag |-> ctag, cclass |-> cclass, cid |-> cid,
     href |-> "", cells |-> <<>>]

\* an <a href=...>
Anchor(text, href) ==
    [name |-> "a", text |-> text, ctag |-> "", cclass |-> "", cid |-> 0,
     href |-> href, cells |-> <<>>]

RECURSIVE JoinCells(_, _)
JoinCells(cells, sep) ==
    IF cells = <<>> THEN ""
    ELSE IF Len(cells) = 1 THEN cells[1]
    ELSE cells[1] \o sep \o JoinCells(Tail(cells), sep)

\* a <tr> with its <td>/<th> cells inside <table class=cclass>
Tr(cells, cclass, cid) ==
    [name |-> "tr", text |-> JoinCells(cells, ""), ctag |-> "table", cclass |-> cclass,
     cid |-> cid, href |-> "", cells |-> cells]

Idx(doc) == [i \in 1..Len(doc) |-> i]

InSeq(v, seq) == \E i \in 1..Len(seq) : seq[i] = v

\* any(keyword in text for keyword in kws)
AnyKeywordIn(text, kws) == \E k \in 1..Len(kws) : Contains(text, kws[k])

(***************************************************************************)
(* extract_details (main.py)                                               *)
(***************************************************************************)

HeaderTags == {"h1", "h2", "h3", "h4"}

\* "Minimum meaningful length" of a collected text
MinTextLen == 15

\* extract_section_text's default max_elements, and the one passed for deadlines
DefaultMaxElements == 5
DeadlineMaxElements == 3

\* faulty variant: a text of the minimum length is kept
LongEnough_FromMinimum(text) == Len(text) >= MinTextLen

\* len(text) > 15
LongEnough(text) == Len(text) > MinTextLen

\* the nested helper extract_section_text: the walk from element `cur` on
RECURSIVE SectionWalk(_, _, _, _, _)
SectionWalk(doc, cur, texts, count, max_elements) ==
    IF cur > Len(doc) \/ ~(count < max_elements)
       \/ (doc[cur].name \in HeaderTags /\ Len(texts) > 0)
    THEN texts
    ELSE LET text == clean_text(doc[cur].text)
             take == /\ doc[cur].name \in {"p", "li", "div"}
                     /\ Strip(doc[cur].text) /= ""
                     /\ text /= "" /\ LongEnough(text)
         IN  SectionWalk(doc, cur + 1,
                         IF take THEN Append(texts, text) ELSE texts,
                         IF take THEN count + 1 ELSE count,
                         max_elements)

extract_section_text(doc, section_elem, max_elements) ==
    SectionWalk(doc, section_elem + 1, <<>>, 0, max_elements)

\* soup.find_all(header tag whose lowered text contains keyword), document order
FindHeaders(doc, keyword) ==
    SelectSeq(Idx(doc), LAMBDA i : doc[i].name \in HeaderTags
                                   /\ Contains(Lower(doc[i].text), keyword))

\* for keyword in keywords: headers.extend(find_all(...))
RECURSIVE CollectHeaders(_, _)
CollectHeaders(doc, keywords) ==
    IF keywords = <<>> THEN <<>>
    ELSE FindHeaders(doc, Head(keywords)) \o CollectHeaders(doc, Tail(keywords))

\* for header in headers: result.extend(extract_section_text(header))
RECURSIVE ScanHeaders(_, _, _)
ScanHeaders(doc, headers, max_elements) ==
    IF headers = <<>> THEN <<>>
    ELSE extract_section_text(doc, Head(headers), max_elements)
         \o ScanHeaders(doc, Tail(headers), max_elements)

\* text = clean_text(...); if text and text not in result: result.append(text)
RECURSIVE AppendNewLoop(_, _)
AppendNewLoop(result, raws) ==
    IF raws = <<>> THEN result
    ELSE LET text == clean_text(Head(raws))
         IN  AppendNewLoop(IF text /= "" /\ ~InSeq(text, result)
                           THEN Append(result, text) ELSE result,
                           Tail(raws))

\* faulty variant: a later strategy is skipped once an earlier one found items
AppendNew_FirstWins(result, raws) ==
    IF result /= <<>> THEN result ELSE AppendNewLoop(result, raws)

\* a later strategy's loop over its items, run on the list found so far
AppendNew(result, raws) == AppendNewLoop(result, raws)

\* the raw texts of the elements of doc that satisfy a test, in document order
TextsOf(doc, idxs) == [k \in 1..Len(idxs) |-> doc[idxs[k]].text]

course_keywords == <<"course", "program", "degree", "major", "academic">>
req_keywords == <<"requirement", "admission", "prerequisite", "qualification",
                  "eligibility", "criteria">>
deadline_keywords == <<"deadline", "important date", "application date", "due date",
                       "submission", "calendar">>

\* soup.select('ul.programs, ul.courses, .program-list, .course-listing, .majors-list')
InCourseList(e) ==
    \/ e.ctag = "ul" /\ e.cclass \in {"programs", "courses"}
    \/ e.cclass \in {"program-list", "course-listing", "majors-list"}

\* soup.select('ul.requirements, .admission-details, .admission-requirements, .eligibility-criteria')
InReqList(e) ==
    \/ e.ctag = "ul" /\ e.cclass = "requirements"
    \/ e.cclass \in {"admission-details", "admission-requirements", "eligibility-criteria"}

\* soup.select('table.dates, table.deadlines, .date-table, .calendar-table')
InDateTable(e) ==
    \/ e.ctag = "table" /\ e.cclass \in {"dates", "deadlines"}
    \/ e.cclass \in {"date-table", "calendar-table"}

\* strategy 1 for one category: the header-keyword scan
HeaderScan(doc, keywords, max_elements) ==
    ScanHeaders(doc, CollectHeaders(doc, keywords), max_elements)

\* course_list.find_all('li') over the selected course lists
CourseListItems(doc) ==
    TextsOf(doc, SelectSeq(Idx(doc), LAMBDA i : doc[i].name = "li" /\ InCourseList(doc[i])))

\* req_list.find_all('li') over the selected requirement lists
ReqListItems(doc) ==
    TextsOf(doc, SelectSeq(Idx(doc), LAMBDA i : doc[i].name = "li" /\ InReqList(doc[i])))

\* rows[1:] of every selected table with at least two cells, joined by " - "
TableRows(doc) ==
    LET isRow(i) == doc[i].name = "tr" /\ InDateTable(doc[i])
        first(i) == ~\E j \in 1..(i - 1) : isRow(j) /\ doc[j].cid = doc[i].cid
        rows == SelectSeq(Idx(doc), LAMBDA i : isRow(i) /\ ~first(i)
                                               /\ Len(doc[i].cells) >= 2)
    IN  [k \in 1..Len(rows) |-> JoinCells(doc[rows[k]].cells, " - ")]

Months == {"january", "february", "march", "april", "may", "june", "july", "august",
           "september", "october", "november", "december"}

\* re.search(date_pattern, text, re.IGNORECASE): a month name, whitespace, a digit
MatchesDatePattern(text) ==
    LET lt == Lower(text)
    IN  \E i \in 1..Len(lt) : \E m \in Months :
          /\ StartsWith(From(lt, i), m)
          /\ LET rest == From(lt, i + Len(m))
             IN  /\ rest /= "" /\ IsSpace(Char(rest, 1))
                 /\ LStrip(rest) /= "" /\ IsDigit(Char(LStrip(rest), 1))

\* the paragraphs holding a date near a deadline keyword
PatternParagraphs(doc) ==
    TextsOf(doc, SelectSeq(Idx(doc), LAMBDA i :
        /\ doc[i].name = "p"
        /\ AnyKeywordIn(Lower(doc[i].text), <<"deadline", "due date", "application">>)
        /\ MatchesDatePattern(doc[i].text)))


\* urllib.parse.urljoin for scheme://host[/path] bases and hrefs without "..",
\* query or fragment
SchemeOf(url) ==
    IF StartsWith(url, "https://") THEN "https://"
    ELSE IF StartsWith(url, "http://") THEN "http://" ELSE ""

RECURSIVE UpToSlash(_)
UpToSlash(s) ==
    IF s = "" \/ Char(s, 1) = "/" THEN "" ELSE Char(s, 1) \o UpToSlash(From(s, 2))

Origin(url) == SchemeOf(url) \o UpToSlash(From(url, Len(SchemeOf(url)) + 1))

RECURSIVE DirOf(_)
DirOf(path) ==
    IF path = "" THEN "/"
    ELSE IF Char(path, Len(path)) = "/" THEN path
    ELSE DirOf(SubSeq(path, 1, Len(path) - 1))

urljoin(base, href) ==
    IF href = "" THEN base
    ELSE IF SchemeOf(href) /= "" THEN href
    ELSE IF Char(href, 1) = "/" THEN Origin(base) \o href
    ELSE Origin(base) \o DirOf(From(base, Len(Origin(base)) + 1)) \o href

\* the (link_text, full_url) pairs of the anchors with an admissions keyword
AdmissionLinks(doc, university_url) ==
    LET idxs == SelectSeq(Idx(doc), LAMBDA i :
                    /\ doc[i].name = "a" /\ doc[i].href /= ""
                    /\ AnyKeywordIn(Lower(doc[i].text),
                                    <<"admission", "apply", "course", "program">>))
    IN  [k \in 1..Len(idxs) |->
            <<Lower(doc[idxs[k]].text), urljoin(university_url, doc[idxs[k]].href)>>]

\* faulty variant: only the courses are looked at
NoCategoryFound_CoursesOnly(courses, requirements, deadlines) == courses = <<>>

\* not any([result["courses"], result["requirements"], result["deadlines"]])
NoCategoryFound(courses, requirements, deadlines) ==
    courses = <<>> /\ requirements = <<>> /\ deadlines = <<>>

\* the local dict `result` of extract_details just before its return statement;
\* follow_links is <<>> when the key was not set
ExtractResult(doc, university_url) ==
    LET courses == AppendNew(HeaderScan(doc, course_keywords, DefaultMaxElements),
                             CourseListItems(doc))
        requirements == AppendNew(HeaderScan(doc, req_keywords, DefaultMaxElements),
                                  ReqListItems(doc))
        deadlines == AppendNew(AppendNew(HeaderScan(doc, deadline_keywords,
                                                    DeadlineMaxElements),
                                         TableRows(doc)),
                               PatternParagraphs(doc))
    IN  [courses |-> courses, requirements |-> requirements, deadlines |-> deadlines,
         follow_links |-> IF NoCategoryFound(courses, requirements, deadlines)
                          THEN AdmissionLinks(doc, university_url) ELSE <<>>]

NotFound == <<"Not found">>

\* x if x else ["Not found"]
OrNotFound(list) == IF list /= <<>> THEN list ELSE NotFound

\* the value extract_details returns: the 3-tuple (courses, requirements, deadlines).
\* result["follow_links"] is not part of it.
extract_details(doc, university_url) ==
    LET result == ExtractResult(doc, university_url)
    IN  <<OrNotFound(result.courses), OrNotFound(result.requirements),
          OrNotFound(result.deadlines)>>


(***************************************************************************)
(* Bounds of the model and the inputs drawn within them                    *)
(***************************************************************************)

\* most targets in the loaded list
MaxTargets == 2

\* the value Python's None
None == "<None>"

\* the pages a server can send: a response body is a key of Pages, and
\* BeautifulSoup(html) is the document stored under it
PageCourses ==
    << El("h2", "Academic Programs"),
       El("p", "Bachelor of   Science in Physics"),
       Li("Biology", "ul", "programs", 1),
       El("h3", "Admission Requirements"),
       El("p", "A completed secondary school diploma") >>

PageLinks ==
    << El("h1", "Welcome"),
       Anchor("Apply now", "/apply"),
       Anchor("Programs", "programs.html"),
       Anchor("Admissions office", "https://adm.example.edu/"),
       Anchor("Contact", "/contact") >>

Pages == [page_courses |-> PageCourses, page_links |-> PageLinks]

\* the bodies response.text() can return: a page, or the empty string
Bodies == DOMAIN Pages \cup {""}

\* BeautifulSoup(html, "html.parser")
BeautifulSoup(html) == Pages[html]

\* the status codes a server answers with in the model
Statuses == {200, 403, 429, 404, 500, 600}

\* what one request can meet: a reply with a status (and, for 200, a body),
\* an exception raised by session.get, or a 200 whose response.text() raises
Reply(status, body) == [status |-> status, body |-> body, exc |-> "none"]
Raise(exc) == [status |-> 0, body |-> "", exc |-> exc]
ReadFail(exc) == [status |-> 200, body |-> "", exc |-> exc]

Outcomes ==
    {Reply(st, "") : st \in Statuses \ {200}}
    \cup {Reply(200, b) : b \in Bodies}
    \cup {Raise("timeout"), Raise("error"), ReadFail("error")}

\* most elements of a document handed to extract_details on its own
MaxNodes == 3

\* the elements such a document is built from
NodePool ==
    { El("h2", "Academic Programs"),
      El("h3", "Submission Deadlines"),
      El("p", "Bachelor of   Science in Physics"),
      El("p", "Physics  and Art"),
      El("p", "Physics and Arts"),
      El("p", "Application deadline: January 15"),
      Li("Biology", "ul", "programs", 1),
      Tr(<<"Fall term", "September 1">>, "dates", 1),
      Anchor("Apply now", "/apply") }

RECURSIVE DocsOfLen(_)
DocsOfLen(n) ==
    IF n = 0 THEN {<<>>}
    ELSE {Append(d, e) : d \in DocsOfLen(n - 1), e \in NodePool}

Docs == UNION {DocsOfLen(n) : n \in 0..MaxNodes}

\* the url such a document was fetched from
DocUrl == "https://example.edu/admissions/index.html"

\* the entries a loaded universities.json can hold at position k
TargetNames == <<"U1", "U2", "U3", "U4">>
UrlChoices == {"", "example.edu", "http://example.edu", "https://www.Harvard.edu"}
EntriesAt(k) ==
    {[name |-> TargetNames[k]]}
    \cup {[name |-> TargetNames[k], url |-> u] : u \in UrlChoices}

RECURSIVE ListsOfLen(_)
ListsOfLen(n) ==
    IF n = 0 THEN {<<>>}
    ELSE {Append(l, e) : l \in ListsOfLen(n - 1), e \in EntriesAt(n)}

UniversityLists == UNION {ListsOfLen(n) : n \in 0..MaxTargets}

(***************************************************************************)
(* State                                                                   *)
(***************************************************************************)

VARIABLES
    universities,        \* main: the list load_university_urls returned
    valid_universities,  \* main: the validated targets
    pc,                  \* main.py: position of main / structured_extraction
    uni_idx,             \* structured_extraction: position of `uni` in the loop
    html,                \* structured_extraction: html = await fetch_html(...)
    university_data,     \* structured_extraction: the output collection
    output_file,         \* what config.OUTPUT_FILE holds
    writes,              \* history: every attempt to write an output file
    exit_status,           \* the exit status of the process, "running" before it ends
    primary_html,        \* history: what fetch_html returned for each target's page
    fetch_calls,         \* history: every call of fetch_html, its url and what for
    rate_sleeps,         \* history: every asyncio.sleep of structured_extraction
    details,             \* structured_extraction: <<courses, requirements, deadlines>>
    follow_links,        \* structured_extraction: the follow_links[:2] being looped over
    link_idx,            \* structured_extraction: position in that loop
    f_pc,                \* fetch_html: position
    attempt,             \* fetch_html: loop variable
    f_wait,              \* fetch_html: seconds of the pending asyncio.sleep
    f_ret,               \* fetch_html: returned value
    f_log,               \* fetch_html: last message logged
    f_hist,              \* fetch_html: requests made and sleeps taken by this call
    ci_pc,               \* main_ci.py: position of main / process_universities
    batch_i,             \* process_universities: loop variable i
    tasks,               \* process_universities: the coroutines handed to gather
    results,             \* process_universities: the output collection
    doc,                 \* a parsed document handed to extract_details
    extracted_doc,       \* what extract_details computed for doc
    scraped_data,        \* enrich_with_ai.py: the records load_scraped_data returned
    enriched_data,       \* enrich_with_ai.py: the output collection
    e_pc,                \* enrich_with_ai.py: position of main
    e_idx,               \* enrich_with_ai.py: position of `university` in the loop
    provider,            \* enrich_with_ai.py: the provider main selected
    api_key,             \* enrich_with_ai.py: the key main selected, "" for None
    service_log          \* history: per record, whether the service was called and its reply

file_vars == <<output_file, writes, exit_status>>
link_vars == <<details, follow_links, link_idx>>
main_vars == <<universities, valid_universities, pc, uni_idx, html, university_data, file_vars,
              primary_html, fetch_calls, rate_sleeps, link_vars>>
fetch_vars == <<f_pc, attempt, f_wait, f_ret, f_log, f_hist>>
ci_vars == <<ci_pc, batch_i, tasks, results>>
ex_vars == <<doc, extracted_doc>>
enrich_vars == <<scraped_data, enriched_data, e_pc, e_idx, provider, api_key, service_log>>
other_vars == <<ci_vars, ex_vars, enrich_vars>>
vars == <<main_vars, fetch_vars, ci_vars, ex_vars, enrich_vars>>

(***************************************************************************)
(* Program constants                                                       *)
(***************************************************************************)

\* fetch_html's default retry_count
retry_count == 3

\* len(user_agents)
NumUserAgents == 3

\* config.RATE_LIMIT
RATE_LIMIT == 2

\* the backoff factors and fixed waits of fetch_html
RateLimitBackoff == 5
ServerErrorBackoff == 2
TimeoutWait == 2
ErrorWait == 1

(***************************************************************************)
(* fetch_html (main.py)                                                    *)
(***************************************************************************)

AttemptEvent(a, o) ==
    [ev |-> "attempt", attempt |-> a, ua |-> (a % NumUserAgents) + 1,
     status |-> o.status, body |-> o.body, exc |-> o.exc, secs |-> 0]

SleepEvent(a, secs) ==
    [ev |-> "sleep", attempt |-> a, ua |-> 0, status |-> 0, body |-> "", exc |-> "none",
     secs |-> secs]

\* response.status == 403 or response.status == 429
IsRateLimited(status) == status = 403 \/ status = 429

\* faulty variant: the upper end of the 5xx range is not checked
IsServerError_NoUpperEnd(status) == ~(status < 500)

\* not (response.status < 500 or response.status >= 600)
IsServerError(status) == ~(status < 500 \/ status >= 600)

\* the value returned when a status is not retried
HardFailureReturn == None

\* faulty variant: exhaustion returns a value of its own
ExhaustedReturn_Distinct == "exhausted retries"

\* the value returned after the loop
ExhaustedReturn == None

\* faulty variant: the backoff forgets the + 1
RateLimitWait_NoIncrement(a) == a * RateLimitBackoff

\* wait_time = (attempt + 1) * 5
RateLimitWait(a) == (a + 1) * RateLimitBackoff

\* 2 * (attempt + 1)
ServerErrorWait(a) == ServerErrorBackoff * (a + 1)

\* faulty variant: the loop runs once too often
LoopContinues_OffByOne(a) == a <= retry_count

\* for attempt in range(retry_count): whether the loop body runs for value a
LoopContinues(a) == a < retry_count

\* faulty variant: the 200 branch drops the body
SuccessReturn_NoBody(o) == None

\* return await response.text()
SuccessReturn(o) == o.body

\* structured_extraction is waiting for fetch_html, called for a target's page
\* ("fetch") or for a secondary link ("sec_fetch")
InFetch == pc \in {"fetch", "sec_fetch"}

\* the call fetch_html(session, url): the loop is entered with attempt = 0
FetchCall ==
    /\ f_pc' = IF LoopContinues(0) THEN "request" ELSE "loop_end"
    /\ attempt' = 0
    /\ f_wait' = 0
    /\ f_ret' = None
    /\ f_log' = "none"
    /\ f_hist' = <<>>

\* one iteration of the loop up to its return or its await asyncio.sleep
FetchRequest(o) ==
    /\ InFetch /\ f_pc = "request"
    /\ f_hist' = Append(f_hist, AttemptEvent(attempt, o))
    /\ IF o.exc = "timeout"
       THEN /\ f_log' = "timeout"
            /\ f_wait' = TimeoutWait
            /\ f_pc' = "sleep"
            /\ UNCHANGED f_ret
       ELSE IF o.exc /= "none"
       THEN /\ f_log' = "error"
            /\ f_wait' = ErrorWait
            /\ f_pc' = "sleep"
            /\ UNCHANGED f_ret
       ELSE IF o.status = 200
       THEN /\ f_log' = "success"
            /\ f_ret' = SuccessReturn(o)
            /\ f_pc' = "returned"
            /\ UNCHANGED f_wait
       ELSE IF IsRateLimited(o.status)
       THEN /\ f_log' = "rate_limited"
            /\ f_wait' = RateLimitWait(attempt)
            /\ f_pc' = "sleep"
            /\ UNCHANGED f_ret
       ELSE IF ~IsServerError(o.status)
       THEN /\ f_log' = "failed_status"
            /\ f_ret' = HardFailureReturn
            /\ f_pc' = "returned"
            /\ UNCHANGED f_wait
       ELSE /\ f_log' = "failed_status"
            /\ f_wait' = ServerErrorWait(attempt)
            /\ f_pc' = "sleep"
            /\ UNCHANGED f_ret
    /\ UNCHANGED <<attempt, main_vars, other_vars>>

\* await asyncio.sleep(...), then the for statement takes the next attempt or ends
FetchSleep ==
    /\ InFetch /\ f_pc = "sleep"
    /\ f_hist' = Append(f_hist, SleepEvent(attempt, f_wait))
    /\ f_wait' = 0
    /\ attempt' = attempt + 1
    /\ f_pc' = IF LoopContinues(attempt + 1) THEN "request" ELSE "loop_end"
    /\ UNCHANGED <<f_ret, f_log, main_vars, other_vars>>

\* after the loop: logging.error("All retry attempts failed"); return None
FetchExhausted ==
    /\ InFetch /\ f_pc = "loop_end"
    /\ f_log' = "all_failed"
    /\ f_ret' = ExhaustedReturn
    /\ f_pc' = "returned"
    /\ UNCHANGED <<attempt, f_wait, f_hist, main_vars, other_vars>>


(***************************************************************************)
(* main and structured_extraction (main.py)                                *)
(***************************************************************************)

\* uni.get(key): None when the key is missing
Get(uni, key) == IF key \in DOMAIN uni THEN uni[key] ELSE None

\* Python truth value of a string-or-None
Truthy(v) == v /= None /\ v /= ""

\* url.startswith(("http://", "https://"))
HasScheme(url) == StartsWith(url, "http://") \/ StartsWith(url, "https://")

\* faulty variant: the scheme is prefixed whatever the url starts with
FixUrl_AlwaysPrefixed(url) == "https://" \o url

\* the URL a validated target carries
FixUrl(url) == IF ~HasScheme(url) THEN "https://" \o url ELSE url

\* main's "Validate URLs before processing" loop
RECURSIVE Validate(_)
Validate(unis) ==
    IF unis = <<>> THEN <<>>
    ELSE LET uni == Head(unis)
         IN  IF ~Truthy(Get(uni, "url"))
             THEN Validate(Tail(unis))
             ELSE <<[uni EXCEPT !.url = FixUrl(uni.url)]>> \o Validate(Tail(unis))

\* time.strftime(...): one run is taken to happen within one clock second
Timestamp == "2025-01-01 00:00:00"

\* getattr(courses, "follow_links", None): courses is a list, and a list carries
\* no such attribute, so the default is returned; <<>> stands for None
GetAttrFollowLinks(courses) == <<>>

\* the record structured_extraction builds for one target
SeqRecord(uni, courses, requirements, deadlines) ==
    [name |-> uni.name, url |-> uni.url, courses |-> courses,
     admissions_requirements |-> requirements,
     application_deadlines |-> deadlines, scraped_at |-> Timestamp]

\* list[:n]
FirstN(lines, n) == SubSeq(lines, 1, IF Len(lines) < n THEN Len(lines) ELSE n)

\* for link_text, link_url in follow_links[:2]
MaxFollowLinks == 2

\* "Update with any new information found": a category of the secondary page
\* that is not the sentinel replaces what the record had
UpdateWith(current, sec) ==
    IF sec /= <<>> /\ sec[1] /= "Not found" THEN sec ELSE current

\* faulty variant: the loop body goes straight to the call of fetch_html
LoopBodyStart_NoSleep == "call"

\* for uni in universities: the loop body starts at the rate-limit sleep
LoopBodyStart == "rate_sleep"

\* main up to the call of structured_extraction
MainStart ==
    /\ pc = "start"
    /\ IF universities = <<>>
       THEN /\ pc' = "done" /\ exit_status' = "0"
            /\ UNCHANGED <<valid_universities, uni_idx>>
       ELSE /\ valid_universities' = Validate(universities)
            /\ uni_idx' = 1
            /\ pc' = IF Validate(universities) = <<>> THEN "save" ELSE LoopBodyStart
            /\ UNCHANGED exit_status
    /\ UNCHANGED <<universities, html, university_data, output_file, writes, primary_html,
                   fetch_calls, rate_sleeps, link_vars, fetch_vars, other_vars>>

\* await asyncio.sleep(config.RATE_LIMIT): the first statement of the loop body
\* over the targets, and of the loop body over the follow links
RateLimitSleep ==
    /\ pc \in {"rate_sleep", "sec_sleep"}
    /\ pc' = IF pc = "rate_sleep" THEN "call" ELSE "sec_call"
    /\ rate_sleeps' = Append(rate_sleeps,
                             [secs |-> RATE_LIMIT, calls_before |-> Len(fetch_calls)])
    /\ UNCHANGED <<universities, valid_universities, uni_idx, html, university_data,
                   file_vars, primary_html, fetch_calls, link_vars, fetch_vars, other_vars>>

\* the call of fetch_html: for the target's url in the loop over the targets,
\* for link_url in the loop over the follow links
FetchStart ==
    /\ pc \in {"call", "sec_call"}
    /\ pc' = IF pc = "call" THEN "fetch" ELSE "sec_fetch"
    /\ fetch_calls' = Append(fetch_calls,
                             [url |-> IF pc = "call"
                                      THEN valid_universities[uni_idx].url
                                      ELSE follow_links[link_idx][2],
                              uni |-> uni_idx,
                              secondary |-> (pc = "sec_call")])
    /\ FetchCall
    /\ UNCHANGED <<universities, valid_universities, uni_idx, html, university_data,
                   file_vars, primary_html, rate_sleeps, link_vars, other_vars>>

\* fetch_html returns: html = await fetch_html(session, uni["url"]), or
\* secondary_html = await fetch_html(session, link_url)
FetchReturn ==
    /\ InFetch /\ f_pc = "returned"
    /\ html' = f_ret
    /\ primary_html' = IF pc = "fetch" THEN Append(primary_html, f_ret) ELSE primary_html
    /\ pc' = IF pc = "fetch" THEN "fetched" ELSE "sec_fetched"
    /\ f_pc' = "idle" /\ attempt' = 0 /\ f_wait' = 0 /\ f_ret' = None
    /\ f_log' = "none" /\ f_hist' = <<>>
    /\ UNCHANGED <<universities, valid_universities, uni_idx, university_data, file_vars,
                   fetch_calls, rate_sleeps, link_vars, other_vars>>

\* "Format the data", append, and the for statement takes the next target
EmitRecord(uni, t) ==
    /\ university_data' = Append(university_data, SeqRecord(uni, t[1], t[2], t[3]))
    /\ uni_idx' = uni_idx + 1
    /\ pc' = IF uni_idx < Len(valid_universities) THEN LoopBodyStart ELSE "save"
    /\ details' = <<>> /\ follow_links' = <<>> /\ link_idx' = 0

\* faulty variant: the links the extractor found are followed, all of them
AfterFetch_LinksUncapped ==
    /\ pc \in {"fetched", "sec_fetched"}
    /\ LET uni == valid_universities[uni_idx]
       IN  IF pc = "fetched"
           THEN IF ~Truthy(html)
                THEN /\ uni_idx' = uni_idx + 1
                     /\ pc' = IF uni_idx < Len(valid_universities)
                              THEN LoopBodyStart ELSE "save"
                     /\ UNCHANGED <<university_data, link_vars>>
                ELSE LET t == extract_details(BeautifulSoup(html), uni.url)
                         links == ExtractResult(BeautifulSoup(html), uni.url).follow_links
                     IN  IF links /= <<>>
                         THEN /\ details' = t
                              /\ follow_links' = links
                              /\ link_idx' = 1
                              /\ pc' = "sec_sleep"
                              /\ UNCHANGED <<university_data, uni_idx>>
                         ELSE EmitRecord(uni, t)
           ELSE LET sec == IF Truthy(html)
                           THEN extract_details(BeautifulSoup(html),
                                                follow_links[link_idx][2])
                           ELSE <<<<>>, <<>>, <<>>>>
                    t == <<UpdateWith(details[1], sec[1]), UpdateWith(details[2], sec[2]),
                           UpdateWith(details[3], sec[3])>>
                IN  IF link_idx < Len(follow_links)
                    THEN /\ details' = t
                         /\ link_idx' = link_idx + 1
                         /\ pc' = "sec_sleep"
                         /\ UNCHANGED <<university_data, uni_idx, follow_links>>
                    ELSE EmitRecord(uni, t)
    /\ html' = None
    /\ UNCHANGED <<universities, valid_universities, file_vars, primary_html,
                   fetch_calls, rate_sleeps, fetch_vars, other_vars>>

\* the rest of the loop body after a fetch_html call returned.  After the
\* target's page: `if not html: continue`, extraction, the follow links, the
\* record.  After a secondary page: its extraction and the update of the
\* categories, then the next link or the record.
AfterFetch ==
    /\ pc \in {"fetched", "sec_fetched"}
    /\ LET uni == valid_universities[uni_idx]
       IN  IF pc = "fetched"
           THEN IF ~Truthy(html)
                THEN /\ uni_idx' = uni_idx + 1
                     /\ pc' = IF uni_idx < Len(valid_universities)
                              THEN LoopBodyStart ELSE "save"
                     /\ UNCHANGED <<university_data, link_vars>>
                ELSE LET t == extract_details(BeautifulSoup(html), uni.url)
                         links == IF t[1] = NotFound
                                  THEN GetAttrFollowLinks(t[1]) ELSE <<>>
                     IN  IF links /= <<>>
                         THEN /\ details' = t
                              /\ follow_links' = FirstN(links, MaxFollowLinks)
                              /\ link_idx' = 1
                              /\ pc' = "sec_sleep"
                              /\ UNCHANGED <<university_data, uni_idx>>
                         ELSE EmitRecord(uni, t)
           ELSE LET sec == IF Truthy(html)
                           THEN extract_details(BeautifulSoup(html),
                                                follow_links[link_idx][2])
                           ELSE <<<<>>, <<>>, <<>>>>
                    t == <<UpdateWith(details[1], sec[1]), UpdateWith(details[2], sec[2]),
                           UpdateWith(details[3], sec[3])>>
                IN  IF link_idx < Len(follow_links)
                    THEN /\ details' = t
                         /\ link_idx' = link_idx + 1
                         /\ pc' = "sec_sleep"
                         /\ UNCHANGED <<university_data, uni_idx, follow_links>>
                    ELSE EmitRecord(uni, t)
    /\ html' = None
    /\ UNCHANGED <<universities, valid_universities, file_vars, primary_html,
                   fetch_calls, rate_sleeps, fetch_vars, other_vars>>

\* one attempt to write `content` to the file at `path`; `data` is the in-memory
\* collection at the time of the attempt
WriteAttempt(path, ok, content, data) ==
    [path |-> path, ok |-> ok, content |-> content, data |-> data]

\* config.OUTPUT_FILE
OUTPUT_FILE == "data/universities.json"

\* main's "Save results" block: one write of config.OUTPUT_FILE inside a try
\* whose except branch logs the error; main returns either way and the
\* process ends with status 0
Save(ok) ==
    /\ pc = "save"
    /\ output_file' = IF ok THEN [written |-> TRUE, content |-> university_data]
                       ELSE output_file
    /\ writes' = Append(writes, WriteAttempt(OUTPUT_FILE, ok, university_data,
                                             university_data))
    /\ exit_status' = "0"
    /\ pc' = "done"
    /\ UNCHANGED <<universities, valid_universities, uni_idx, html, university_data,
                   primary_html, fetch_calls, rate_sleeps, link_vars, fetch_vars, other_vars>>

\* config.OUTPUT_FILE before anything is written to it
NoFile == [written |-> FALSE, content |-> <<>>]

\* no file written and the process still running
NoWrites == output_file = NoFile /\ writes = <<>> /\ exit_status = "running"

\* the variables of the programs a specification does not run
SeqIdle ==
    /\ pc = "off" /\ uni_idx = 0 /\ html = None /\ university_data = <<>>
    /\ primary_html = <<>> /\ fetch_calls = <<>> /\ rate_sleeps = <<>>
    /\ details = <<>> /\ follow_links = <<>> /\ link_idx = 0
    /\ f_pc = "idle" /\ attempt = 0 /\ f_wait = 0 /\ f_ret = None
    /\ f_log = "none" /\ f_hist = <<>>

CiIdle == ci_pc = "off" /\ batch_i = 0 /\ tasks = <<>> /\ results = <<>>

ExIdle == doc = <<>> /\ extracted_doc = <<>>

EnrichIdle ==
    /\ scraped_data = <<>> /\ enriched_data = <<>> /\ e_pc = "off" /\ e_idx = 0
    /\ provider = "" /\ api_key = "" /\ service_log = <<>>

Init ==
    /\ universities \in UniversityLists
    /\ valid_universities = <<>>
    /\ pc = "start"
    /\ uni_idx = 0
    /\ html = None
    /\ university_data = <<>>
    /\ NoWrites
    /\ primary_html = <<>> /\ fetch_calls = <<>> /\ rate_sleeps = <<>>
    /\ details = <<>> /\ follow_links = <<>> /\ link_idx = 0
    /\ f_pc = "idle" /\ attempt = 0 /\ f_wait = 0 /\ f_ret = None
    /\ f_log = "none" /\ f_hist = <<>>
    /\ CiIdle /\ ExIdle /\ EnrichIdle

Next ==
    \/ MainStart
    \/ RateLimitSleep
    \/ FetchStart
    \/ \E o \in Outcomes : FetchRequest(o)
    \/ FetchSleep
    \/ FetchExhausted
    \/ FetchReturn
    \/ AfterFetch
    \/ \E ok \in BOOLEAN : Save(ok)

Spec == Init /\ [][Next]_vars


(***************************************************************************)
(* extract_university_data (main_ci.py)                                    *)
(*                                                                         *)
(* crawler.arun is the crawl4ai library: what it returns (or that it       *)
(* raises) is an input.  result.extracted_content is None, a string, or    *)
(* the dict built by CustomJsonCssExtractionStrategy.extract, whose        *)
(* values are lists of stripped, non-empty element texts.                  *)
(***************************************************************************)

CiFields == <<"courses", "course_descriptions", "admissions_requirements",
              "application_deadlines", "early_admission", "regular_admission">>

FieldSet == {CiFields[k] : k \in DOMAIN CiFields}

\* a Python dict with string keys
EmptyDict == [k \in {} |-> <<>>]

\* d.get(key, default)
DictGet(d, key, default) == IF key \in DOMAIN d THEN d[key] ELSE default

\* the dict extract() returns when it found `found` (a dict of non-empty lists):
\* every schema field is present, [] where no element matched
SchemaDict(found) == [k \in FieldSet |-> DictGet(found, k, <<>>)]

NoContent == [type |-> "none", value |-> EmptyDict]
StringContent == [type |-> "str", value |-> EmptyDict]
DictContent(d) == [type |-> "dict", value |-> d]

\* result.extracted_content and isinstance(result.extracted_content, dict)
IsUsableDict(content) == content.type = "dict" /\ DOMAIN content.value /= {}

\* what extract() returns for three pages: lists of element texts, stripped but
\* otherwise as the page has them
PhysicsContent ==
    DictContent(SchemaDict([courses |-> <<"BSc Physics", "MSc  Physics">>,
                            admissions_requirements |-> <<"Essay", "Transcript">>]))

HistoryContent ==
    DictContent(SchemaDict([courses |-> <<"MSc Physics", "BA History">>,
                            admissions_requirements |-> <<"Transcript", "Interview">>,
                            application_deadlines |->
                                <<"Regular Decision: January 1", "None">>]))

\* a page whose matched elements read "Not found"
NotFoundContent ==
    DictContent(SchemaDict([courses |-> <<"Not found">>,
                            admissions_requirements |-> <<"Not found">>,
                            application_deadlines |-> <<"Not found">>,
                            regular_admission |-> <<"Regular Decision: January 1">>]))

\* the extracted_content values crawler.arun hands back in the model
ContentChoices ==
    { NoContent,
      StringContent,
      DictContent(EmptyDict),
      DictContent(SchemaDict(EmptyDict)),
      PhysicsContent,
      HistoryContent,
      NotFoundContent }

\* result.markdown in the model: nothing, or a rendered page
MarkdownPage == "# Admissions\n Apply by January 1 \nBachelor degree programs\n\nContact us"
MarkdownChoices == {"", MarkdownPage}

ArunRaise == [raised |-> TRUE, content |-> NoContent, markdown |-> ""]
ArunResult(content, markdown) == [raised |-> FALSE, content |-> content, markdown |-> markdown]

PrimaryOutcomes ==
    {ArunRaise} \cup {ArunResult(c, m) : c \in ContentChoices, m \in MarkdownChoices}

AdditionalOutcomes == {ArunRaise} \cup {ArunResult(c, "") : c \in ContentChoices}

\* the outcomes drawn when whole lists of targets are run
ListPrimaryOutcomes ==
    {ArunRaise, ArunResult(NoContent, MarkdownPage), ArunResult(PhysicsContent, "")}

ListAdditionalOutcomes == {ArunRaise, ArunResult(HistoryContent, "")}

\* the additional pages explored for a Harvard url
HarvardPages ==
    << "https://college.harvard.edu/academics/fields-study",
       "https://college.harvard.edu/admissions/apply",
       "https://college.harvard.edu/admissions/apply/first-year-applicants",
       "https://college.harvard.edu/academics/liberal-arts-sciences/concentrations",
       "https://college.harvard.edu/academics/liberal-arts-sciences",
       "https://college.harvard.edu/admissions/why-harvard/academic-environment",
       "https://college.harvard.edu/admissions/admissions-statistics",
       "https://college.harvard.edu/admissions/why-harvard/affordability" >>

additional_pages(url) == IF Contains(Lower(url), "harvard") THEN HarvardPages ELSE <<>>

\* faulty variant: nothing is filtered
DedupLoop_KeepsAll(combined, seen, unique) == unique \o combined

\* "Remove duplicates while preserving order": the loop over `combined`
RECURSIVE DedupLoop(_, _, _)
DedupLoop(combined, seen, unique) ==
    IF combined = <<>> THEN unique
    ELSE LET item == Head(combined)
             item_str == Strip(item)
             keep == /\ item_str /= "" /\ item_str \notin seen
                     /\ item_str /= "None" /\ item_str /= "Not found"
         IN  DedupLoop(Tail(combined),
                       IF keep THEN seen \cup {item_str} ELSE seen,
                       IF keep THEN Append(unique, item) ELSE unique)

\* faulty variant: the page's items are put first
MergeLists_SecondaryFirst(primary, secondary) == DedupLoop(secondary \o primary, {}, <<>>)

\* the list stored for a key both dicts hold: combined = extracted[key] + value
MergeLists(primary, secondary) == DedupLoop(primary \o secondary, {}, <<>>)

\* "For each field, combine with existing data": extracted after the loop over
\* add_result.extracted_content.items()
MergeExtracted(extracted, add) ==
    [k \in DOMAIN extracted \cup DOMAIN add |->
        IF k \notin DOMAIN add THEN extracted[k]
        ELSE IF k \in DOMAIN extracted THEN MergeLists(extracted[k], add[k])
        ELSE add[k]]

\* faulty variant: a page that raised wipes what was extracted so far
AfterAdditional_FailureClears(extracted, add_result) ==
    IF add_result.raised THEN EmptyDict
    ELSE IF IsUsableDict(add_result.content)
    THEN MergeExtracted(extracted, add_result.content.value)
    ELSE extracted

\* `extracted` after the try statement run for one additional page: the except
\* branch and the "No additional data found" branch leave it as it was
AfterAdditional(extracted, add_result) ==
    IF ~add_result.raised /\ IsUsableDict(add_result.content)
    THEN MergeExtracted(extracted, add_result.content.value)
    ELSE extracted

\* the record returned from the except branch
ErrorRecord(uni, error) ==
    [name |-> uni.name, url |-> uni.url,
     courses |-> NotFound, course_descriptions |-> NotFound,
     admissions_requirements |-> NotFound, application_deadlines |-> NotFound,
     early_admission |-> NotFound, regular_admission |-> NotFound,
     scraped_at |-> Timestamp, error |-> error]

\* "Format the data with cleaner structure"
FormatData(uni, extracted) ==
    [name |-> uni.name, url |-> uni.url,
     courses |-> DictGet(extracted, "courses", NotFound),
     course_descriptions |-> DictGet(extracted, "course_descriptions", NotFound),
     admissions_requirements |-> DictGet(extracted, "admissions_requirements", NotFound),
     application_deadlines |-> DictGet(extracted, "application_deadlines", NotFound),
     early_admission |-> DictGet(extracted, "early_admission", NotFound),
     regular_admission |-> DictGet(extracted, "regular_admission", NotFound),
     scraped_at |-> Timestamp]

\* all(data[key][0] == "Not found" for key in keys): evaluated key by key, it
\* stops at the first False and raises IndexError on an empty list met before
RECURSIVE AllNotFound(_, _)
AllNotFound(data, keys) ==
    IF keys = <<>> THEN "True"
    ELSE IF data[Head(keys)] = <<>> THEN "IndexError"
    ELSE IF data[Head(keys)][1] = "Not found" THEN AllNotFound(data, Tail(keys))
    ELSE "False"

\* markdown_text.split('\n')
RECURSIVE UpToNewline(_)
UpToNewline(s) ==
    IF s = "" \/ Char(s, 1) = "\n" THEN "" ELSE Char(s, 1) \o UpToNewline(From(s, 2))

RECURSIVE SplitLines(_)
SplitLines(s) ==
    LET first == UpToNewline(s)
    IN  IF Len(first) = Len(s) THEN <<s>>
        ELSE <<first>> \o SplitLines(From(s, Len(first) + 2))

\* [line.strip() for line in markdown_lines if any(kw in line.lower() for kw in kws)]
LinesWith(lines, kws) ==
    LET hits == SelectSeq(lines, LAMBDA line : AnyKeywordIn(Lower(line), kws))
    IN  [k \in DOMAIN hits |-> Strip(hits[k])]

\* if lines: data[key] = lines[:n]
SetIfAny(data, key, lines, n) ==
    IF lines /= <<>> THEN [data EXCEPT ![key] = FirstN(lines, n)] ELSE data

md_course_kws == <<"degree", "course", "program", "major", "bachelor", "master", "phd",
                   "concentration", "field of study">>
md_description_kws == <<"program", "study", "academic", "field", "course", "concentration">>
md_req_kws == <<"requirement", "admission", "prerequisite", "qualify", "eligibility", "gpa",
                "test score", "application process">>
md_deadline_kws == <<"deadline", "date", "application period", "apply by", "due by",
                     "submit by", "timeline">>
md_early_kws == <<"early action", "early decision", "early admission", "november",
                  "december">>
md_regular_kws == <<"regular decision", "regular admission", "january", "february", "march",
                    "april">>

\* the caps of the markdown line scan
MdLineCap == 10
MdAdmissionCap == 5
MdDescriptionMinLen == 80

\* "Simple keyword-based extraction from markdown as last resort"
MarkdownFallback(data, markdown_text) ==
    LET markdown_lines == SplitLines(markdown_text)
        description_lines ==
            LinesWith(SelectSeq(markdown_lines,
                                LAMBDA line : Len(Strip(line)) > MdDescriptionMinLen),
                      md_description_kws)
        d1 == SetIfAny(data, "courses", LinesWith(markdown_lines, md_course_kws), MdLineCap)
        d2 == SetIfAny(d1, "course_descriptions", description_lines, MdLineCap)
        d3 == SetIfAny(d2, "admissions_requirements",
                       LinesWith(markdown_lines, md_req_kws), MdLineCap)
        d4 == SetIfAny(d3, "application_deadlines",
                       LinesWith(markdown_lines, md_deadline_kws), MdLineCap)
        d5 == SetIfAny(d4, "early_admission",
                       LinesWith(markdown_lines, md_early_kws), MdAdmissionCap)
    IN  SetIfAny(d5, "regular_admission",
                 LinesWith(markdown_lines, md_regular_kws), MdAdmissionCap)

\* the keys the markdown fallback is decided on
FallbackKeys == <<"courses", "admissions_requirements", "application_deadlines">>

\* extract_university_data from "Format the data" to its return, the IndexError
\* of data[key][0] being caught by the function's except branch
FinishRecord(uni, extracted, markdown) ==
    LET data == FormatData(uni, extracted)
        allNotFound == AllNotFound(data, FallbackKeys)
    IN  IF allNotFound = "IndexError" THEN ErrorRecord(uni, "list index out of range")
        ELSE IF allNotFound = "True" /\ Truthy(markdown)
        THEN MarkdownFallback(data, markdown)
        ELSE data

(***************************************************************************)
(* process_universities and main (main_ci.py)                              *)
(***************************************************************************)

\* max_tasks = min(1, len(universities))
MaxTasks(n) == IF n < 1 THEN n ELSE 1

\* a coroutine extract_university_data(crawler, uni) not yet run
NewTask(uni) ==
    [uni |-> uni, tpc |-> "primary", extracted |-> EmptyDict, markdown |-> "",
     page |-> 0, extracted_before |-> EmptyDict, add_result |-> <<>>, ret |-> <<>>]

\* tasks = [extract_university_data(crawler, uni) for uni in universities[i:i+max_tasks]]
BatchTasks(unis, i, max_tasks) ==
    LET last == IF i + max_tasks < Len(unis) THEN i + max_tasks ELSE Len(unis)
    IN  [k \in 1..(last - i) |-> NewTask(unis[i + k])]

\* range(start, stop, step) raises ValueError when step is zero
RangeRaises(start, stop, step) == step = 0

\* main up to the first batch of process_universities.  When the validated list
\* is empty max_tasks is 0 and range(0, 0, 0) raises ValueError inside
\* process_universities; main does not catch it and the handler around
\* asyncio.run(main()) logs it and calls sys.exit(1)
CiMainStart ==
    /\ ci_pc = "start"
    /\ IF universities = <<>>
       THEN /\ ci_pc' = "done" /\ exit_status' = "0"
            /\ UNCHANGED <<valid_universities, tasks>>
       ELSE /\ valid_universities' = Validate(universities)
            /\ IF RangeRaises(0, Len(Validate(universities)),
                              MaxTasks(Len(Validate(universities))))
               THEN /\ ci_pc' = "crashed" /\ exit_status' = "1"
                    /\ UNCHANGED tasks
               ELSE /\ ci_pc' = "gather"
                    /\ tasks' = BatchTasks(Validate(universities), 0,
                                           MaxTasks(Len(Validate(universities))))
                    /\ UNCHANGED exit_status
    /\ UNCHANGED <<batch_i, results, universities, output_file, writes>>
    /\ UNCHANGED <<pc, uni_idx, html, university_data, primary_html, fetch_calls, rate_sleeps, link_vars,
                   fetch_vars, ex_vars, enrich_vars>>

\* the task's first crawler.arun returns or raises; without additional pages the
\* task runs on to its return
TaskPrimary(t, o) ==
    /\ ci_pc = "gather" /\ t \in DOMAIN tasks /\ tasks[t].tpc = "primary"
    /\ LET task == tasks[t]
           extracted == IF IsUsableDict(o.content) THEN o.content.value ELSE EmptyDict
       IN  tasks' = [tasks EXCEPT ![t] =
             IF o.raised
             THEN [task EXCEPT !.tpc = "done",
                               !.ret = <<ErrorRecord(task.uni, "arun raised")>>]
             ELSE IF additional_pages(task.uni.url) = <<>>
             THEN [task EXCEPT !.tpc = "done", !.extracted = extracted,
                               !.markdown = o.markdown,
                               !.ret = <<FinishRecord(task.uni, extracted, o.markdown)>>]
             ELSE [task EXCEPT !.tpc = "additional", !.extracted = extracted,
                               !.markdown = o.markdown, !.page = 1]]
    /\ UNCHANGED <<ci_pc, batch_i, results, main_vars, fetch_vars, ex_vars, enrich_vars>>

\* one iteration of the loop over additional_pages; after the last one the task
\* runs on to its return
TaskAdditional(t, o) ==
    /\ ci_pc = "gather" /\ t \in DOMAIN tasks /\ tasks[t].tpc = "additional"
    /\ LET task == tasks[t]
           extracted == AfterAdditional(task.extracted, o)
       IN  tasks' = [tasks EXCEPT ![t] =
             IF task.page < Len(additional_pages(task.uni.url))
             THEN [task EXCEPT !.extracted = extracted, !.add_result = <<o>>,
                               !.extracted_before = task.extracted,
                               !.page = task.page + 1]
             ELSE [task EXCEPT !.tpc = "done", !.extracted = extracted,
                               !.add_result = <<o>>,
                               !.extracted_before = task.extracted,
                               !.ret = <<FinishRecord(task.uni, extracted, task.markdown)>>]]
    /\ UNCHANGED <<ci_pc, batch_i, results, main_vars, fetch_vars, ex_vars, enrich_vars>>

\* faulty variant: the delay is taken after every batch
MoreBatches_AfterEveryBatch(i, max_tasks, n) == i < n

\* if i + max_tasks < len(universities): the delay between batches
MoreBatches(i, max_tasks, n) == i + max_tasks < n

\* asyncio.gather returns the results in the order of its arguments;
\* results.extend(batch_results)
BatchJoin ==
    /\ ci_pc = "gather"
    /\ \A t \in DOMAIN tasks : tasks[t].tpc = "done"
    /\ results' = results \o [t \in DOMAIN tasks |-> tasks[t].ret[1]]
    /\ tasks' = <<>>
    /\ ci_pc' = IF MoreBatches(batch_i, MaxTasks(Len(valid_universities)),
                               Len(valid_universities))
                THEN "batch_sleep" ELSE "save"
    /\ UNCHANGED <<batch_i, main_vars, fetch_vars, ex_vars, enrich_vars>>

\* await asyncio.sleep(config.RATE_LIMIT), then the next batch
BatchSleep ==
    /\ ci_pc = "batch_sleep"
    /\ batch_i' = batch_i + MaxTasks(Len(valid_universities))
    /\ tasks' = BatchTasks(valid_universities, batch_i + MaxTasks(Len(valid_universities)),
                           MaxTasks(Len(valid_universities)))
    /\ ci_pc' = "gather"
    /\ UNCHANGED <<results, main_vars, fetch_vars, ex_vars, enrich_vars>>

\* config.DATA_DIR
DATA_DIR == "data"

\* the records of the simplified fallback file
SimplifiedData(data) ==
    [k \in DOMAIN data |->
        [name |-> data[k].name, url |-> data[k].url, scraped_at |-> data[k].scraped_at]]

\* the lines of the emergency file
EmergencyLines(data) ==
    [k \in DOMAIN data |->
        "{\"name\": \"" \o data[k].name \o "\", \"url\": \"" \o data[k].url \o "\"}\n"]

\* the write attempts of main's "Save results" block: the dump to
\* config.OUTPUT_FILE; when it succeeds the file is read back, and a failed
\* read-back is answered by a write of the simplified records; an exception of
\* the dump or of the simplified write reaches the outer except branch, which
\* writes the emergency file inside a try of its own
CiWrites(data, write_ok, verify_ok, simplified_ok, emergency_ok) ==
    LET main_write == WriteAttempt(OUTPUT_FILE, write_ok, data, data)
        simplified == WriteAttempt(DATA_DIR \o "/simplified_data.json", simplified_ok,
                                   SimplifiedData(data), data)
        emergency == WriteAttempt(DATA_DIR \o "/emergency_data.json", emergency_ok,
                                  EmergencyLines(data), data)
    IN  IF ~write_ok THEN <<main_write, emergency>>
        ELSE IF verify_ok THEN <<main_write>>
        ELSE IF simplified_ok THEN <<main_write, simplified>>
        ELSE <<main_write, simplified, emergency>>

\* main's "Save results" block; main returns normally whatever the writes did
\* and the script logs "Script completed successfully"
CiSave(write_ok, verify_ok, simplified_ok, emergency_ok) ==
    /\ ci_pc = "save"
    /\ output_file' = IF write_ok THEN [written |-> TRUE, content |-> results]
                       ELSE output_file
    /\ writes' = writes \o CiWrites(results, write_ok, verify_ok, simplified_ok,
                                     emergency_ok)
    /\ exit_status' = "0"
    /\ ci_pc' = "done"
    /\ UNCHANGED <<batch_i, tasks, results, universities, valid_universities>>
    /\ UNCHANGED <<pc, uni_idx, html, university_data, primary_html, fetch_calls, rate_sleeps, link_vars,
                   fetch_vars, ex_vars, enrich_vars>>

InitCI ==
    /\ universities \in UniversityLists
    /\ valid_universities = <<>>
    /\ NoWrites
    /\ ci_pc = "start" /\ batch_i = 0 /\ tasks = <<>> /\ results = <<>>
    /\ SeqIdle /\ ExIdle /\ EnrichIdle

NextCI ==
    \/ CiMainStart
    \/ \E t \in DOMAIN tasks : \E o \in ListPrimaryOutcomes : TaskPrimary(t, o)
    \/ \E t \in DOMAIN tasks : \E o \in ListAdditionalOutcomes : TaskAdditional(t, o)
    \/ BatchJoin
    \/ BatchSleep
    \/ \E w, v, f, e \in BOOLEAN : CiSave(w, v, f, e)

SpecCI == InitCI /\ [][NextCI]_vars

(***************************************************************************)
(* extract_university_data on its own: one task of a batch, run from its   *)
(* creation to its return                                                  *)
(***************************************************************************)

\* the validated targets a task is created for
TaskTargets ==
    {[name |-> "U1", url |-> u] : u \in {"https://example.edu", "https://www.Harvard.edu"}}

InitTask ==
    /\ \E uni \in TaskTargets :
          /\ universities = <<uni>>
          /\ valid_universities = <<uni>>
          /\ tasks = <<NewTask(uni)>>
    /\ NoWrites
    /\ ci_pc = "gather" /\ batch_i = 0 /\ results = <<>>
    /\ SeqIdle /\ ExIdle /\ EnrichIdle

NextTask ==
    \/ \E t \in DOMAIN tasks : \E o \in PrimaryOutcomes : TaskPrimary(t, o)
    \/ \E t \in DOMAIN tasks : \E o \in AdditionalOutcomes : TaskAdditional(t, o)

SpecTask == InitTask /\ [][NextTask]_vars

(***************************************************************************)
(* extract_details on its own: a document is drawn, the function is applied *)
(***************************************************************************)

\* extract_details(doc, DocUrl): its local result dict and the tuple it returns
ExtractDoc ==
    /\ extracted_doc = <<>>
    /\ extracted_doc' = << [result |-> ExtractResult(doc, DocUrl),
                            returned |-> extract_details(doc, DocUrl)] >>
    /\ UNCHANGED <<doc, main_vars, fetch_vars, ci_vars, enrich_vars>>

InitExtract ==
    /\ doc \in Docs
    /\ extracted_doc = <<>>
    /\ universities = <<>> /\ valid_universities = <<>> /\ NoWrites
    /\ SeqIdle /\ CiIdle /\ EnrichIdle

NextExtract == ExtractDoc

SpecExtract == InitExtract /\ [][NextExtract]_vars

(***************************************************************************)
(* Enrichment (enrich_with_ai.py, claude_api.py, groq_api.py)              *)
(*                                                                         *)
(* The scraped records come from a JSON file: a category of a record is a  *)
(* list of strings or, in a malformed file, a number.  requests.post is    *)
(* the service: that it raises, or the response it returns, is an input.   *)
(***************************************************************************)

\* JSON values of a record's category
PyList(items) == [py |-> "list", items |-> items]
PyInt(n) == [py |-> "int", n |-> n]

\* `texts and texts[0] != "Not found"`: a non-zero number is truthy and its
\* subscript raises TypeError
GuardOf(v) ==
    IF v.py = "int" THEN IF v.n = 0 THEN "skip" ELSE "TypeError"
    ELSE IF v.items = <<>> \/ v.items[1] = "Not found" THEN "skip"
    ELSE "use"

\* university_data.get(key, ["Not found"])
Category(uni_data, key) == DictGet(uni_data, key, PyList(NotFound))

\* the texts _simulate_enrichment loops over for a category
TextsToUse(uni_data, key) ==
    IF GuardOf(Category(uni_data, key)) = "use"
    THEN Category(uni_data, key).items ELSE <<>>

skip_words == <<"accepts", "committed", "university is", "chart", "code of conduct">>

\* "Try to identify the degree type"
DegreeType(course) ==
    IF Contains(Lower(course), "master") THEN "Master's"
    ELSE IF Contains(Lower(course), "phd") \/ Contains(Lower(course), "doctorate")
    THEN "PhD"
    ELSE "Bachelor's"

\* "Organize courses/programs"
ProgramsOf(courses) ==
    LET kept == SelectSeq(courses,
                          LAMBDA course : /\ Strip(course) /= ""
                                          /\ ~StartsWith(course, "* [")
                                          /\ ~AnyKeywordIn(Lower(course), skip_words))
    IN  [k \in DOMAIN kept |->
            [name |-> Strip(kept[k]), description |-> "",
             degree_type |-> DegreeType(kept[k]), department |-> ""]]

\* "Organize admission requirements"
RequirementsOf(req_texts) ==
    LET kept == SelectSeq(req_texts,
                          LAMBDA req : /\ Strip(req) /= ""
                                       /\ ~Contains(Lower(req), "skip to")
                                       /\ ~StartsWith(req, "* ["))
    IN  [k \in DOMAIN kept |-> Strip(kept[k])]

\* the value a loop `for text in texts: if all(w in text.lower() ...): v = text.strip()`
\* leaves in v, "" when no text matches
RECURSIVE LastMatch(_, _)
LastMatch(texts, words) ==
    IF texts = <<>> THEN ""
    ELSE LET text == texts[Len(texts)]
         IN  IF \A k \in DOMAIN words : Contains(Lower(text), words[k])
             THEN Strip(text)
             ELSE LastMatch(SubSeq(texts, 1, Len(texts) - 1), words)

\* "Process early admission details"
EarlyOf(uni_data) ==
    IF GuardOf(Category(uni_data, "early_admission")) /= "use" THEN EmptyDict
    ELSE LET texts == Category(uni_data, "early_admission").items
         IN  [deadline |-> LastMatch(texts, <<"november">>),
              notification_date |-> LastMatch(texts, <<"december", "notified">>),
              restrictions |-> IF LastMatch(texts, <<"restrictive">>) /= ""
                               THEN "Restrictive early action" ELSE ""]

\* "Process regular admission details"
RegularOf(uni_data) ==
    IF GuardOf(Category(uni_data, "regular_admission")) /= "use" THEN EmptyDict
    ELSE LET texts == Category(uni_data, "regular_admission").items
         IN  [deadline |-> LastMatch(texts, <<"january">>),
              notification_date |-> LastMatch(texts, <<"march", "notified">>)]

\* a dict with one more key
WithKey(d, key, value) ==
    [k \in DOMAIN d \cup {key} |-> IF k = key THEN value ELSE d[k]]

\* what a call returns to its caller: a value, or the exception it raised
Returns(value) == [raised |-> FALSE, value |-> value, error |-> ""]
Raises(error) == [raised |-> TRUE, value |-> EmptyDict, error |-> error]

\* the categories _simulate_enrichment subscripts, in the order it does
SimulatedCategories ==
    <<"courses", "admissions_requirements", "early_admission", "regular_admission">>

\* _simulate_enrichment of ClaudeAIClient and of GroqAIClient; the GROQ one
\* adds enriched_by
SimulateEnrichment(prov, uni_data) ==
    LET enriched ==
            [name |-> DictGet(uni_data, "name", "Unknown University"),
             url |-> DictGet(uni_data, "url", ""),
             programs |-> ProgramsOf(TextsToUse(uni_data, "courses")),
             application_process |->
                 [early_admission |-> EarlyOf(uni_data),
                  regular_admission |-> RegularOf(uni_data),
                  general_requirements |->
                      RequirementsOf(TextsToUse(uni_data,
                                                "admissions_requirements"))],
             scraped_data |-> uni_data,
             enriched_at |-> Timestamp]
    IN  IF \E k \in DOMAIN SimulatedCategories :
              GuardOf(Category(uni_data, SimulatedCategories[k])) = "TypeError"
        THEN Raises("'int' object is not subscriptable")
        ELSE IF prov = "groq"
        THEN Returns(WithKey(enriched, "enriched_by", "Simulation (GROQ API not available)"))
        ELSE Returns(enriched)

\* str.find(c) and str.rfind(c): the 0-based position, -1 when c does not occur
RECURSIVE FindFrom(_, _, _)
FindFrom(s, c, i) ==
    IF i > Len(s) THEN -1
    ELSE IF Char(s, i) = c THEN i - 1
    ELSE FindFrom(s, c, i + 1)

Find(s, c) == FindFrom(s, c, 1)

RECURSIVE RFindFrom(_, _, _)
RFindFrom(s, c, i) ==
    IF i < 1 THEN -1
    ELSE IF Char(s, i) = c THEN i - 1
    ELSE RFindFrom(s, c, i - 1)

RFind(s, c) == RFindFrom(s, c, Len(s))

\* the JSON object the service is asked for, as text and parsed
OrganizedJson == "{\"name\": \"U1\", \"programs\": []}"
OrganizedDict == [name |-> "U1", programs |-> <<>>]

\* json.loads on the texts of the modelled replies: the one well-formed object
\* parses, anything else raises JSONDecodeError
JsonLoads(json_str) ==
    IF json_str = OrganizedJson THEN Returns(OrganizedDict)
    ELSE Raises("JSONDecodeError")

\* "Try to extract JSON from the response": the text between the first "{" and
\* the last "}" is parsed; no such text, or text that does not parse, gives no
\* dict
ExtractJson(enriched_text) ==
    LET json_start == Find(enriched_text, "{")
        json_end == RFind(enriched_text, "}") + 1
    IN  IF json_start >= 0 /\ json_end > json_start
        THEN JsonLoads(SubSeq(enriched_text, json_start + 1, json_end))
        ELSE Raises("no JSON block")

\* what requests.post did: raised, or returned a response with a status and a
\* body; the body is JSON or not, holds the list of reply items (content for
\* Claude, choices for GROQ) or not, and `texts` are the texts of the items
AiReply(raised, status, is_json, has_items, texts) ==
    [raised |-> raised, status |-> status, is_json |-> is_json,
     has_items |-> has_items, texts |-> texts]

PostRaises == AiReply(TRUE, 0, FALSE, FALSE, <<>>)

AiReplies ==
    { PostRaises,
      AiReply(FALSE, 500, FALSE, FALSE, <<>>),
      AiReply(FALSE, 429, TRUE, FALSE, <<>>),
      AiReply(FALSE, 200, FALSE, FALSE, <<>>),
      AiReply(FALSE, 200, TRUE, FALSE, <<>>),
      AiReply(FALSE, 200, TRUE, TRUE, <<>>),
      AiReply(FALSE, 200, TRUE, TRUE, <<"I cannot help with that.">>),
      AiReply(FALSE, 200, TRUE, TRUE, <<"Result: {oops} end">>),
      AiReply(FALSE, 200, TRUE, TRUE, <<"Here it is: " \o OrganizedJson \o " Done.">>) }

\* the reply carries a JSON object the client can use
Parsable(reply) ==
    /\ ~reply.raised /\ reply.status = 200 /\ reply.is_json
    /\ reply.has_items /\ reply.texts /= <<>>
    /\ ~ExtractJson(reply.texts[1]).raised

\* query_claude / query_groq: without a key the record is organized locally;
\* with one the service is asked and a usable reply is returned with the
\* metadata added; every other reply, and every exception, ends in
\* _simulate_enrichment
QueryAi(prov, key, uni_data, reply) ==
    IF key = "" THEN SimulateEnrichment(prov, uni_data)
    ELSE IF Parsable(reply)
    THEN LET parsed == ExtractJson(reply.texts[1]).value
             enriched ==
                 WithKey(WithKey(WithKey(parsed, "url",
                                         DictGet(uni_data, "url", "")),
                                 "scraped_data", uni_data),
                         "enriched_at", Timestamp)
         IN  Returns(IF prov = "groq" THEN WithKey(enriched, "enriched_by", "GROQ AI")
                     ELSE enriched)
    ELSE SimulateEnrichment(prov, uni_data)

\* enrich_university_data of claude_api.py and of groq_api.py
enrich_university_data(prov, key, uni_data, reply) ==
    QueryAi(prov, key, uni_data, reply)

\* main's choice of provider and key from --provider and the keys found in the
\* arguments or the environment; "" stands for no key
SelectProvider(arg, claude_api_key, groq_api_key) ==
    IF arg = "auto"
    THEN IF groq_api_key /= "" THEN <<"groq", groq_api_key>>
         ELSE IF claude_api_key /= "" THEN <<"claude", claude_api_key>>
         ELSE <<"groq", "">>
    ELSE IF arg = "claude" THEN <<"claude", claude_api_key>>
    ELSE <<"groq", groq_api_key>>

\* provider.upper()
Upper(prov) == IF prov = "claude" THEN "CLAUDE" ELSE "GROQ"

\* the record main appends when enriching a record raised
FailedRecord(prov, university, error) ==
    [name |-> DictGet(university, "name", "Unknown University"),
     url |-> DictGet(university, "url", ""),
     error |-> error,
     scraped_data |-> university,
     enriched_at |-> Timestamp,
     enriched_by |-> Upper(prov) \o " (failed)"]

\* the variables enrich_with_ai.py does not touch
crawl_vars ==
    <<universities, valid_universities, pc, uni_idx, html, university_data, output_file,
      primary_html, fetch_calls, rate_sleeps, link_vars, fetch_vars, ci_vars, ex_vars>>

\* main up to the loop over the records
EnrichStart(arg, claude_api_key, groq_api_key) ==
    /\ e_pc = "start"
    /\ provider' = SelectProvider(arg, claude_api_key, groq_api_key)[1]
    /\ api_key' = SelectProvider(arg, claude_api_key, groq_api_key)[2]
    /\ e_idx' = 1
    /\ e_pc' = IF scraped_data = <<>> THEN "save" ELSE "loop"
    /\ UNCHANGED <<scraped_data, enriched_data, service_log, writes, exit_status,
                   crawl_vars>>

\* one iteration of "Enrich each university's data": the record is enriched and
\* appended; when that raises, the record appended carries the error
EnrichOne(reply) ==
    /\ e_pc = "loop"
    /\ LET university == scraped_data[e_idx]
           enriched == enrich_university_data(provider, api_key, university, reply)
       IN  /\ enriched_data' =
                 Append(enriched_data,
                        IF enriched.raised
                        THEN FailedRecord(provider, university, enriched.error)
                        ELSE enriched.value)
           /\ service_log' = Append(service_log,
                                    [called |-> api_key /= "", reply |-> reply,
                                     raised |-> enriched.raised])
    /\ e_idx' = e_idx + 1
    /\ e_pc' = IF e_idx < Len(scraped_data) THEN "loop" ELSE "save"
    /\ UNCHANGED <<scraped_data, provider, api_key, writes, exit_status, crawl_vars>>

\* --output's default, and the alternate location
EnrichedOutput == "data/enriched_data.json"
AlternateOutput == "enriched_data.json"

\* "Save the enriched data": the write to --output; when it fails, one write to
\* the alternate location, and sys.exit(1) when that fails too
EnrichSave(ok, alt_ok) ==
    /\ e_pc = "save"
    /\ writes' = writes
          \o <<WriteAttempt(EnrichedOutput, ok, enriched_data, enriched_data)>>
          \o IF ok THEN <<>>
             ELSE <<WriteAttempt(AlternateOutput, alt_ok, enriched_data, enriched_data)>>
    /\ exit_status' = IF ok \/ alt_ok THEN "0" ELSE "1"
    /\ e_pc' = "done"
    /\ UNCHANGED <<scraped_data, enriched_data, e_idx, provider, api_key, service_log,
                   crawl_vars>>

\* the records of the input file
ScrapedChoices ==
    { [name |-> "U1", url |-> "https://example.edu",
       courses |-> PyList(<<"BSc Physics", " Master of Arts ", "* [Home](/)",
                            "Flow chart of studies">>),
       admissions_requirements |-> PyList(<<"Essay ", "Skip to content">>),
       application_deadlines |-> PyList(NotFound),
       early_admission |-> PyList(<<"Apply by November 1",
                                    "Notified in December", "Restrictive early action">>),
       regular_admission |-> PyList(NotFound),
       scraped_at |-> Timestamp],
      [name |-> "U2", url |-> "https://two.example.edu",
       courses |-> PyList(NotFound),
       admissions_requirements |-> PyList(NotFound),
       application_deadlines |-> PyList(NotFound),
       early_admission |-> PyList(<<>>),
       regular_admission |-> PyList(<<"Apply by January 1", "Applicants are notified in March">>),
       scraped_at |-> Timestamp,
       error |-> "Failed to extract data"],
      [name |-> "U3", courses |-> PyInt(5)] }

RECURSIVE ScrapedListsOfLen(_)
ScrapedListsOfLen(n) ==
    IF n = 0 THEN {<<>>}
    ELSE {Append(l, r) : l \in ScrapedListsOfLen(n - 1), r \in ScrapedChoices}

ScrapedLists == UNION {ScrapedListsOfLen(n) : n \in 0..MaxTargets}

InitEnrich ==
    /\ scraped_data \in ScrapedLists
    /\ enriched_data = <<>> /\ e_pc = "start" /\ e_idx = 0
    /\ provider = "" /\ api_key = "" /\ service_log = <<>>
    /\ universities = <<>> /\ valid_universities = <<>> /\ NoWrites
    /\ SeqIdle /\ CiIdle /\ ExIdle

NextEnrich ==
    \/ \E arg \in {"auto", "claude", "groq"} :
          \E claude_api_key \in {"", "sk-claude"} :
             \E groq_api_key \in {"", "gsk-groq"} :
                EnrichStart(arg, claude_api_key, groq_api_key)
    \/ \E reply \in AiReplies : EnrichOne(reply)
    \/ \E ok, alt_ok \in BOOLEAN : EnrichSave(ok, alt_ok)

SpecEnrich == InitEnrich /\ [][NextEnrich]_vars

(***************************************************************************)
(* Properties of fetch_html, checked under Spec                            *)
(***************************************************************************)

Attempts(h) == SelectSeq(h, LAMBDA e : e.ev = "attempt")
Sleeps(h) == SelectSeq(h, LAMBDA e : e.ev = "sleep")
LastEvent(h) == h[Len(h)]

\* the call used up its attempts: its last event is the sleep after the last attempt
Exhausted(h) == Len(h) > 0 /\ LastEvent(h).ev = "sleep" /\ Len(Attempts(h)) = retry_count

\* the call ended on a status that is not retried
HardFailed(h) ==
    /\ Len(h) > 0 /\ LastEvent(h).ev = "attempt" /\ LastEvent(h).exc = "none"
    /\ LastEvent(h).status /= 200

\* C5: one call of fetch_html makes at most retry_count (3) request attempts,
\* whatever the server answers, and no request is possible once the bound is
\* reached; the call takes at most one sleep per attempt.
C5_AttemptsBounded ==
    /\ Len(Attempts(f_hist)) <= retry_count
    /\ retry_count = 3
    /\ f_pc = "request" => Len(Attempts(f_hist)) < retry_count
    /\ Len(f_hist) <= 2 * retry_count

C5_Witness ==
    /\ f_pc = "returned" /\ Len(Attempts(f_hist)) = 3
    /\ \E i, j, k \in DOMAIN f_hist :
         /\ f_hist[i].ev = "attempt" /\ f_hist[i].status = 429
         /\ f_hist[j].ev = "attempt" /\ f_hist[j].status = 500
         /\ f_hist[k].ev = "attempt" /\ f_hist[k].exc = "timeout"

\* C6: when the answers to one call are k-1 statuses 403/429 followed by a 200
\* (k <= 3), the call has returned the body of the 200 after k attempts and k-1
\* sleeps, and the 200 is the last thing the call did.
C6_RateLimitedThenSuccess ==
    LET atts == Attempts(f_hist)
        k == Len(atts)
    IN  ( /\ k >= 1 /\ k <= 3
          /\ atts[k].status = 200 /\ atts[k].exc = "none"
          /\ \A j \in 1..(k - 1) : atts[j].exc = "none" /\ atts[j].status \in {403, 429} )
        => /\ f_pc = "returned"
           /\ f_ret = atts[k].body
           /\ Len(Sleeps(f_hist)) = k - 1
           /\ LastEvent(f_hist) = atts[k]

C6_Witness ==
    /\ f_pc = "returned" /\ f_ret = "page_courses"
    /\ [j \in DOMAIN Attempts(f_hist) |-> Attempts(f_hist)[j].status] = <<429, 429, 200>>
    /\ Len(Sleeps(f_hist)) = 2

\* C7: a status that is neither 200, 403, 429 nor in [500,600) ends the call at
\* once with the failure value: it is the last event of the call, no sleep is
\* pending and the call has returned None.
C7_OtherStatusFailsAtOnce ==
    \A j \in DOMAIN f_hist :
        ( /\ f_hist[j].ev = "attempt" /\ f_hist[j].exc = "none"
          /\ f_hist[j].status \notin {200, 403, 429}
          /\ ~(f_hist[j].status >= 500 /\ f_hist[j].status < 600) )
        => j = Len(f_hist) /\ f_pc = "returned" /\ f_ret = None /\ f_wait = 0

C7_Witness ==
    /\ f_pc = "returned" /\ Len(f_hist) = 5
    /\ LastEvent(f_hist).ev = "attempt" /\ LastEvent(f_hist).status = 404
    /\ LastEvent(f_hist).attempt = 2

\* the seconds the claim gives for the sleep after attempt event e
ClaimedSleep(e) ==
    IF e.exc = "timeout" THEN 2
    ELSE IF e.exc /= "none" THEN 1
    ELSE IF e.status \in {403, 429} THEN 5 * (e.attempt + 1)
    ELSE 2 * (e.attempt + 1)

\* C8: every sleep follows an attempt and lasts 5*(a+1) s after a 403/429,
\* 2*(a+1) s after a 5xx, 2 s after a timeout and 1 s after another transport
\* error, a being the zero-based index of the attempt.
C8_SleepSeconds ==
    /\ \A j \in DOMAIN f_hist :
         f_hist[j].ev = "sleep"
         => /\ j > 1 /\ f_hist[j - 1].ev = "attempt"
            /\ f_hist[j].secs = ClaimedSleep(f_hist[j - 1])
    /\ f_pc = "sleep" => f_wait = ClaimedSleep(LastEvent(f_hist))

C8_Witness ==
    [j \in DOMAIN Sleeps(f_hist) |-> Sleeps(f_hist)[j].secs] = <<2, 10, 6>>

\* C9 as claimed: a call that used up its attempts returns an outcome the caller
\* can tell apart from the one returned for a status that is not retried.
C9_ExhaustedDistinctFromHard ==
    (f_pc = "returned" /\ Exhausted(f_hist)) => f_ret /= HardFailureReturn

\* C9 as amended: a call that used up its attempts returns None, the value also
\* returned for a status that is not retried; only the message logged differs.
C9_FailuresReturnNone ==
    f_pc = "returned"
    => /\ Exhausted(f_hist) => f_ret = None /\ f_log = "all_failed"
       /\ HardFailed(f_hist) => f_ret = None /\ f_log = "failed_status"

C9_Witness ==
    /\ f_pc = "returned" /\ Exhausted(f_hist)
    /\ \A j \in 1..3 : Attempts(f_hist)[j].status = 500

(***************************************************************************)
(* Properties of structured_extraction (main.py), checked under Spec       *)
(***************************************************************************)

AllSentinel(r, fields) == \A f \in fields : f \in DOMAIN r /\ r[f] = NotFound

SeqCategories == {"courses", "admissions_requirements", "application_deadlines"}

\* C2: the k-th record of the output belongs to the k-th target processed.
C2_RecordOrderIsTargetOrder ==
    \A k \in DOMAIN university_data :
        k <= Len(valid_universities)
        /\ university_data[k].name = valid_universities[k].name

\* C3: when the run is over the output holds exactly one record per valid target.
C3_OneRecordPerTarget ==
    pc \in {"save", "done"}
    => /\ Len(university_data) = Len(valid_universities)
       /\ \A k \in DOMAIN valid_universities :
            \E j \in DOMAIN university_data :
                university_data[j].name = valid_universities[k].name

\* C4: a target whose primary fetch failed has a record with every category
\* ["Not found"] and an error field.
C4_FailedFetchGivesErrorRecord ==
    \A k \in DOMAIN primary_html :
        (k < uni_idx /\ primary_html[k] = None)
        => \E j \in DOMAIN university_data :
              /\ university_data[j].name = valid_universities[k].name
              /\ AllSentinel(university_data[j], SeqCategories)
              /\ "error" \in DOMAIN university_data[j]

(***************************************************************************)
(* Properties of extract_university_data and process_universities          *)
(* (main_ci.py), checked under SpecCI                                      *)
(***************************************************************************)

CategoryFields == {"courses", "admissions_requirements", "application_deadlines",
                   "early_admission", "regular_admission"}

\* every category field a record carries is a non-empty sequence
CategoriesNonEmpty(r) == \A f \in CategoryFields \cap DOMAIN r : r[f] /= <<>>

\* C1: in every record a run emits, each category field is a non-empty
\* sequence (content, or exactly ["Not found"]).
C1_CategoriesNonEmpty ==
    /\ \A k \in DOMAIN results : CategoriesNonEmpty(results[k])
    /\ \A k \in DOMAIN university_data : CategoriesNonEmpty(university_data[k])

(***************************************************************************)
(* Properties of extract_details, checked under SpecExtract                *)
(***************************************************************************)

IsPrefix(p, q) == Len(p) <= Len(q) /\ SubSeq(q, 1, Len(p)) = p

\* the cleaned, non-empty texts of a list of raw texts
CleanedSet(raws) == {clean_text(raws[k]) : k \in DOMAIN raws} \ {""}

ItemSet(list) == {list[k] : k \in DOMAIN list}

NoRepeatFrom(list, n) ==
    \A a, b \in DOMAIN list : (a >= n /\ b > a) => list[a] /= list[b]

\* the items strategy 1 yields for each category of the drawn document
HeaderItems ==
    [courses |-> HeaderScan(doc, course_keywords, 5),
     requirements |-> HeaderScan(doc, req_keywords, 5),
     deadlines |-> HeaderScan(doc, deadline_keywords, 3)]

\* the cleaned items the later strategies yield for each category
LaterItems ==
    [courses |-> CleanedSet(CourseListItems(doc)),
     requirements |-> CleanedSet(ReqListItems(doc)),
     deadlines |-> CleanedSet(TableRows(doc)) \cup CleanedSet(PatternParagraphs(doc))]

ExtractCategories == {"courses", "requirements", "deadlines"}

\* C10 as claimed: when the header-keyword scan yields an item for a category,
\* the category's result is exactly the header-scan items.
C10_HeaderScanAlone ==
    extracted_doc /= <<>>
    => \A c \in ExtractCategories :
          HeaderItems[c] /= <<>> => extracted_doc[1].result[c] = HeaderItems[c]

\* C10 as amended: the strategies are blended within a category. The result
\* starts with the header-scan items, unchanged, and goes on with the items of
\* the selector scan (for deadlines also the table rows and the pattern
\* paragraphs) not already in the list, each once; none of them is left out.
C10_StrategiesBlended ==
    extracted_doc /= <<>>
    => \A c \in ExtractCategories :
          LET list == extracted_doc[1].result[c]
              header == HeaderItems[c]
          IN  /\ IsPrefix(header, list)
              /\ ItemSet(list) = ItemSet(header) \cup LaterItems[c]
              /\ NoRepeatFrom(list, Len(header) + 1)
              /\ \A k \in (Len(header) + 1)..Len(list) : list[k] \notin ItemSet(header)

C10_Witness ==
    /\ extracted_doc /= <<>>
    /\ "Bachelor of Science in Physics" \in ItemSet(HeaderItems.courses)
    /\ "Biology" \notin ItemSet(HeaderItems.courses)
    /\ "Biology" \in ItemSet(extracted_doc[1].returned[1])

\* C14: extract_details produces follow links only when every category is
\* empty after the header, selector and pattern strategies; with an item in any
\* category there are no follow links.
C14_LinksOnlyWhenAllEmpty ==
    (extracted_doc /= <<>> /\ extracted_doc[1].result.follow_links /= <<>>)
    => /\ \A c \in ExtractCategories : extracted_doc[1].result[c] = <<>>
       /\ extracted_doc[1].returned = <<NotFound, NotFound, NotFound>>

\* a document with an admissions link and nothing else yields the link
C14_Witness ==
    /\ extracted_doc /= <<>>
    /\ extracted_doc[1].result.follow_links
         = << <<"apply now", "https://example.edu/apply">> >>
    /\ \E k \in DOMAIN doc : doc[k].name = "a"

\* the targets of the loaded list that carry a url
HasUrl(entry) == "url" \in DOMAIN entry /\ entry.url /= ""

\* structured_extraction has finished with the k-th validated target
TargetDone(k) == uni_idx > k \/ pc \in {"save", "done"}

SecondaryCalls(k) ==
    {j \in DOMAIN fetch_calls : fetch_calls[j].uni = k /\ fetch_calls[j].secondary}

\* the follow links extract_details finds on the page fetched for target k
LinksFound(k) ==
    ExtractResult(BeautifulSoup(primary_html[k]), valid_universities[k].url).follow_links

\* C12 as claimed: when a target's page has no content in any category but has
\* admissions links, the links the extractor found reach the orchestrator and
\* the first of them is fetched before the record is emitted.
C12_FollowLinksAreFetched ==
    \A k \in DOMAIN primary_html :
        (TargetDone(k) /\ Truthy(primary_html[k]) /\ LinksFound(k) /= <<>>)
        => \E j \in SecondaryCalls(k) : fetch_calls[j].url = LinksFound(k)[1][2]

C20_UrlsNormalized ==
    /\ \A j \in DOMAIN fetch_calls :
          /\ StartsWith(fetch_calls[j].url, "http://")
             \/ StartsWith(fetch_calls[j].url, "https://")
          /\ \E k \in DOMAIN universities :
                /\ HasUrl(universities[k])
                /\ universities[k].name = valid_universities[fetch_calls[j].uni].name
                /\ \/ fetch_calls[j].url = universities[k].url
                      /\ \/ StartsWith(universities[k].url, "http://")
                         \/ StartsWith(universities[k].url, "https://")
                   \/ fetch_calls[j].url = "https://" \o universities[k].url
                      /\ ~StartsWith(universities[k].url, "http://")
                      /\ ~StartsWith(universities[k].url, "https://")
    /\ \A k \in DOMAIN universities : ~HasUrl(universities[k]) =>
          /\ \A j \in DOMAIN valid_universities :
                valid_universities[j].name /= universities[k].name
          /\ \A j \in DOMAIN university_data :
                university_data[j].name /= universities[k].name
    /\ pc \notin {"start"} =>
          Len(valid_universities)
            = Cardinality({k \in DOMAIN universities : HasUrl(universities[k])})

\* example.edu was fetched as https://example.edu, a target without url dropped
C20_Witness ==
    /\ pc = "done"
    /\ \E k \in DOMAIN universities : ~HasUrl(universities[k])
    /\ \E k \in DOMAIN universities :
          HasUrl(universities[k]) /\ universities[k].url = "example.edu"
    /\ \E j \in DOMAIN fetch_calls : fetch_calls[j].url = "https://example.edu"
    /\ \E j \in DOMAIN university_data : university_data[j].url = "https://example.edu"

(***************************************************************************)
(* Properties of extract_university_data, checked under SpecTask           *)
(*                                                                         *)
(* A task records, for the additional page it processed last, what arun    *)
(* gave (add_result) and `extracted` before and after that page.           *)
(***************************************************************************)

\* the tokens that stand for "nothing" in a category list
Placeholders == {"", "None", "Not found"}

HasContent(list) == \E k \in DOMAIN list : Strip(list[k]) \notin Placeholders

\* the list a dict holds for a key, [] when it does not hold the key
ListOf(d, key) == IF key \in DOMAIN d THEN d[key] ELSE <<>>

\* the positions of a list that hold the first occurrence of a real item
FirstSeenIdx(list) ==
    {i \in DOMAIN list :
        /\ Strip(list[i]) \notin Placeholders
        /\ \A j \in 1..(i - 1) : Strip(list[j]) /= Strip(list[i])}

\* the items of a list at a set of positions, in the list's order
Pick(list, idxs) ==
    [k \in 1..Cardinality(idxs) |->
        list[CHOOSE i \in idxs : Cardinality({j \in idxs : j <= i}) = k]]

FirstSeen(list) == Pick(list, FirstSeenIdx(list))

\* the tasks that have processed an additional page, and those whose last page
\* gave a dict that was merged
PastPage(t) == tasks[t].add_result /= <<>>

PageFailed(t) ==
    /\ PastPage(t)
    /\ \/ tasks[t].add_result[1].raised
       \/ tasks[t].add_result[1].content.type /= "dict"
       \/ tasks[t].add_result[1].content.value = EmptyDict

PageMerged(t) == PastPage(t) /\ ~PageFailed(t)

PageDict(t) == tasks[t].add_result[1].content.value

\* C11 as claimed: the line scan writes a category only if it was empty; a
\* category the CSS extraction gave content for is emitted with that content.
C11_LineScanOnlyFillsEmpty ==
    \A t \in DOMAIN tasks :
        (tasks[t].tpc = "done" /\ "error" \notin DOMAIN tasks[t].ret[1])
        => \A key \in FieldSet :
              HasContent(ListOf(tasks[t].extracted, key))
              => tasks[t].ret[1][key] = tasks[t].extracted[key]

\* C15: for a category with content on both sides, the merged list is the primary
\* items in their order followed by the page's items not already present, in
\* their order (an item counts once, placeholders do not count).
C15_MergeOrder ==
    \A t \in DOMAIN tasks : PageMerged(t) =>
        \A key \in DOMAIN tasks[t].extracted_before \cap DOMAIN PageDict(t) :
            LET primary == tasks[t].extracted_before[key]
                secondary == PageDict(t)[key]
                present == {Strip(primary[k]) : k \in DOMAIN primary}
            IN  (HasContent(primary) /\ HasContent(secondary))
                => tasks[t].extracted[key]
                     = FirstSeen(primary)
                       \o SelectSeq(FirstSeen(secondary), LAMBDA x : Strip(x) \notin present)

\* primary ["Essay","Transcript"] and secondary ["Transcript","Interview"]
C15_Witness ==
    \E t \in DOMAIN tasks :
        /\ PageMerged(t)
        /\ ListOf(tasks[t].extracted_before, "admissions_requirements")
              = <<"Essay", "Transcript">>
        /\ PageDict(t).admissions_requirements = <<"Transcript", "Interview">>
        /\ tasks[t].extracted.admissions_requirements = <<"Essay", "Transcript", "Interview">>

\* the lists with no repeated item and no placeholder
IsDeduplicated(list) == FirstSeenIdx(list) = DOMAIN list

\* C16 as claimed: a category list merged with itself comes out unchanged.
C16_SelfMergeUnchanged ==
    \A t \in DOMAIN tasks : PageMerged(t) =>
        \A key \in DOMAIN tasks[t].extracted_before \cap DOMAIN PageDict(t) :
            PageDict(t)[key] = tasks[t].extracted_before[key]
            => tasks[t].extracted[key] = tasks[t].extracted_before[key]

\* C16 as amended: a category list without repeated items and placeholders
\* (such as any list a merge produced) merged with itself comes out unchanged,
\* order and content; any other list comes out as its first occurrences.
C16_SelfMergeOfDeduplicated ==
    \A t \in DOMAIN tasks : PageMerged(t) =>
        \A key \in DOMAIN tasks[t].extracted_before \cap DOMAIN PageDict(t) :
            LET list == tasks[t].extracted_before[key]
            IN  PageDict(t)[key] = list
                => /\ tasks[t].extracted[key] = FirstSeen(list)
                   /\ IsDeduplicated(list) => tasks[t].extracted[key] = list
                   /\ MergeLists(tasks[t].extracted[key], tasks[t].extracted[key])
                        = tasks[t].extracted[key]

C16_Witness ==
    \E t \in DOMAIN tasks :
        /\ PageMerged(t)
        /\ ListOf(tasks[t].extracted_before, "courses") = <<"BSc Physics", "MSc  Physics">>
        /\ PageDict(t).courses = <<"BSc Physics", "MSc  Physics">>
        /\ tasks[t].extracted.courses = <<"BSc Physics", "MSc  Physics">>

\* C17 as claimed, per category: a primary list without content and a page's
\* list with content give the page's list (as it is, or its first occurrences);
\* two lists without content give the sentinel in the record the task returns.
C17_SentinelMerge ==
    \A t \in DOMAIN tasks : PageMerged(t) =>
        \A key \in FieldSet :
            LET primary == ListOf(tasks[t].extracted_before, key)
                secondary == ListOf(PageDict(t), key)
            IN  /\ (~HasContent(primary) /\ HasContent(secondary))
                   => tasks[t].extracted[key] \in {secondary, FirstSeen(secondary)}
                /\ (/\ key \in DOMAIN tasks[t].extracted_before
                    /\ ~HasContent(primary) /\ ~HasContent(secondary)
                    /\ tasks[t].tpc = "done")
                   => tasks[t].ret[1][key] = NotFound

\* runs of whitespace collapsed to one space, trimmed
NormalizeWs(item) == Strip(CollapseWs(item))

\* C18 as claimed: a merged list with content holds no two items equal after
\* whitespace normalization and no placeholder token.
C18_MergedListDeduplicated ==
    \A t \in DOMAIN tasks : PageMerged(t) =>
        \A key \in DOMAIN tasks[t].extracted :
            LET list == tasks[t].extracted[key]
            IN  HasContent(list)
                => /\ \A a, b \in DOMAIN list :
                        a < b => NormalizeWs(list[a]) /= NormalizeWs(list[b])
                   /\ \A a \in DOMAIN list : NormalizeWs(list[a]) \notin Placeholders

\* C19: an additional page that raises or gives no dict leaves every category
\* as it was; the task goes on to the next page or to its return.
C19_FailedPageChangesNothing ==
    \A t \in DOMAIN tasks : PageFailed(t) =>
        /\ tasks[t].extracted = tasks[t].extracted_before
        /\ \/ tasks[t].tpc = "additional"
              /\ tasks[t].page \in 2..Len(additional_pages(tasks[t].uni.url))
           \/ tasks[t].tpc = "done" /\ tasks[t].ret /= <<>>

\* a page raised after the primary page had given content, and the record
\* returned carries that content
C19_Witness ==
    \E t \in DOMAIN tasks :
        /\ PageFailed(t) /\ tasks[t].add_result[1].raised
        /\ tasks[t].tpc = "done"
        /\ HasContent(ListOf(tasks[t].extracted, "courses"))
        /\ tasks[t].ret[1].courses = tasks[t].extracted.courses

(***************************************************************************)
(* Properties of the pacing and of the save block of main.py, checked      *)
(* under Spec                                                              *)
(***************************************************************************)

\* the sleeps structured_extraction took after call j-1 of fetch_html and
\* before call j
SleepsBefore(j) == {s \in DOMAIN rate_sleeps : rate_sleeps[s].calls_before = j - 1}

\* C21: every call of fetch_html, for a target's page or for a follow link, comes
\* after exactly one sleep of config.RATE_LIMIT seconds taken since the call
\* before it; the call is the step that follows the sleep.
C21_SleepBeforeEveryFetch ==
    /\ \A j \in DOMAIN fetch_calls :
          /\ Cardinality(SleepsBefore(j)) = 1
          /\ \A s \in SleepsBefore(j) : rate_sleeps[s].secs = RATE_LIMIT
    /\ pc \in {"call", "sec_call"}
       <=> \E s \in DOMAIN rate_sleeps : rate_sleeps[s].calls_before = Len(fetch_calls)

\* two targets fetched, each after a sleep of its own
C21_Witness ==
    /\ pc = "done" /\ Len(fetch_calls) = 2
    /\ [s \in DOMAIN rate_sleeps |-> rate_sleeps[s].calls_before] = <<0, 1>>

\* the run has ended after a failed write of the output file
SaveFailed == exit_status /= "running" /\ writes /= <<>> /\ ~writes[1].ok

\* C24 as claimed, for main.py: after a failed write of config.OUTPUT_FILE the
\* run has made exactly one more write attempt, to another path; the records in
\* memory are the ones both attempts were handed; the run reports failure only
\* if the second attempt failed too.
C24_OneAlternateWrite ==
    SaveFailed
    => /\ Len(writes) = 2
       /\ writes[2].path /= writes[1].path
       /\ \A k \in DOMAIN writes : writes[k].data = university_data
       /\ exit_status = "1" => ~writes[2].ok

\* C28 as claimed: a call of fetch_html that has returned did not end on a
\* sleep, and took fewer sleeps than it made attempts.
C28_NoSleepAfterFinalAttempt ==
    (InFetch /\ f_pc = "returned" /\ f_hist /= <<>>)
    => /\ LastEvent(f_hist).ev = "attempt"
       /\ Len(Sleeps(f_hist)) <= Len(Attempts(f_hist)) - 1

(***************************************************************************)
(* Properties of process_universities (main_ci.py), checked under SpecCI   *)
(***************************************************************************)

\* the targets of the batches before the one that starts at i
JoinedBefore(i) == SubSeq(valid_universities, 1, i)

\* what holds in every state of the batch loop: the batch in flight has at most
\* max_tasks tasks, the records of all earlier batches are in results, and the
\* delay is only taken while targets remain
BatchLoopInv ==
    /\ Len(tasks) <= MaxTasks(Len(valid_universities))
    /\ tasks /= <<>>
       => /\ Len(results) = batch_i
          /\ \A k \in 1..batch_i : results[k].name = JoinedBefore(batch_i)[k].name
    /\ ci_pc = "batch_sleep"
       => /\ tasks = <<>>
          /\ Len(results) < Len(valid_universities)

\* a batch after the first starts from the delay and from nowhere else
BatchStartsAfterDelay ==
    (ci_pc /= "start" /\ tasks = <<>> /\ tasks' /= <<>>) => ci_pc = "batch_sleep"

\* the last batch is followed by the save block, with no delay in between
NoDelayAfterLastBatch ==
    (ci_pc = "gather" /\ ci_pc' /= "gather"
        /\ Len(results') = Len(valid_universities))
    => ci_pc' = "save"

\* C22: at most max_tasks tasks are in flight; a batch starts only when every
\* task of the batch before it has finished and the delay has been taken; no
\* delay follows the last batch.
C22_BatchesAreSerialized ==
    /\ []BatchLoopInv
    /\ [][BatchStartsAfterDelay /\ NoDelayAfterLastBatch]_vars

\* the second of two batches in flight, the first one's record joined
C22_Witness ==
    /\ ci_pc = "gather" /\ batch_i = 1 /\ Len(tasks) = 1
    /\ Len(results) = 1 /\ Len(valid_universities) = 2

\* C30 as claimed: when validation leaves no target, process_universities
\* returns an empty collection and main goes on to the save block; nothing is
\* raised and the process does not exit with an error.
C30_EmptyTargetListReturnsEmpty ==
    (ci_pc \notin {"off", "start"} /\ universities /= <<>> /\ valid_universities = <<>>)
    => /\ ci_pc \in {"save", "done"}
       /\ results = <<>>
       /\ exit_status /= "1"

(***************************************************************************)
(* Properties of the record of an empty extraction (main_ci.py), checked   *)
(* under SpecTask                                                          *)
(***************************************************************************)

\* the task's first arun returned a result
PrimaryFetched(t) ==
    ~(tasks[t].ret /= <<>> /\ "error" \in DOMAIN tasks[t].ret[1]
      /\ tasks[t].ret[1].error = "arun raised")

\* neither the CSS extraction of any page nor the markdown gave the task an item
NothingExtracted(t) ==
    /\ \A key \in FieldSet : ListOf(tasks[t].extracted, key) = <<>>
    /\ tasks[t].markdown = ""

\* C23 as claimed: a task whose page was fetched and whose strategies gave no
\* item in any category returns a record with the sentinel in every category
\* and without an error field.
C23_EmptyExtractionIsNotAFailure ==
    \A t \in DOMAIN tasks :
        (tasks[t].tpc = "done" /\ PrimaryFetched(t) /\ NothingExtracted(t))
        => /\ "error" \notin DOMAIN tasks[t].ret[1]
           /\ \A key \in FieldSet : tasks[t].ret[1][key] = NotFound

(***************************************************************************)
(* Properties of the header-keyword scan of extract_details, checked under *)
(* SpecExtract                                                             *)
(***************************************************************************)

\* the tuple extract_details returned for the drawn document
Returned == extracted_doc[1].returned

\* C26 as claimed: the header-keyword scan of a category collects at most the
\* category's cap of items, 5 for courses and requirements and 3 for deadlines,
\* and the list returned carries them.
C26_HeaderScanWithinCap ==
    extracted_doc /= <<>>
    => /\ Len(HeaderItems.courses) <= DefaultMaxElements
       /\ Len(HeaderItems.requirements) <= DefaultMaxElements
       /\ Len(HeaderItems.deadlines) <= DeadlineMaxElements
       /\ IsPrefix(HeaderItems.deadlines, Returned[3])
          \/ Returned[3] = NotFound

\* the pairs of a heading and a paragraph, list item or block with text that
\* the walk from the heading reaches: no heading lies between the two, and
\* fewer elements than the walk's cap do
ReachedFrom ==
    {w \in (DOMAIN doc) \X (DOMAIN doc) :
        /\ w[1] < w[2] /\ w[2] - w[1] <= DefaultMaxElements
        /\ doc[w[1]].name \in HeaderTags
        /\ \A m \in (w[1] + 1)..(w[2] - 1) : doc[m].name \notin HeaderTags
        /\ doc[w[2]].name \in {"p", "li", "div"}
        /\ clean_text(doc[w[2]].text) /= ""}

\* the whitespace-normalized text of the element reached, and whether the walk
\* from the heading collected it
TextReached(w) == clean_text(doc[w[2]].text)
Collected(w) ==
    InSeq(TextReached(w), extract_section_text(doc, w[1], DefaultMaxElements))

C29_NoDuplicateInCategory ==
    extracted_doc /= <<>>
    => \A c \in 1..3 : NoRepeatFrom(Returned[c], 1)

(***************************************************************************)
(* Properties of the enrichment run (enrich_with_ai.py), checked under     *)
(* SpecEnrich                                                              *)
(***************************************************************************)

\* the service was asked for record k and gave no reply the client could use:
\* a transport error, a status other than 200, or an unparsable body
ServiceFailed(k) == service_log[k].called /\ ~Parsable(service_log[k].reply)

\* the output holds one record per input record enriched so far, in input order
OneEnrichedPerInput ==
    /\ Len(enriched_data) = (IF e_pc = "start" THEN 0 ELSE e_idx - 1)
    /\ e_pc \in {"save", "done"} => Len(enriched_data) = Len(scraped_data)
    /\ \A k \in DOMAIN enriched_data : enriched_data[k].scraped_data = scraped_data[k]

\* C25 as claimed: the loop appends one record per input record, in input
\* order, and the record appended for an input on which the service failed
\* carries the scraped data and an error field.
C25_ServiceFailureGivesErrorRecord ==
    /\ OneEnrichedPerInput
    /\ \A k \in DOMAIN enriched_data :
          ServiceFailed(k)
          => /\ enriched_data[k].scraped_data = scraped_data[k]
             /\ "error" \in DOMAIN enriched_data[k]

====
